---- MODULE Spec2Model ----
(***************************************************************************)
(* Balance settlement, stock allocation and the SMS order lifecycle of the *)
(* Mub_log marketplace backend (src/server.js, with the earlier server of  *)
(* src/unnamed/part_003 writing to the same MongoDB database).             *)
(*                                                                         *)
(* Every request handler is an async function: the code between two awaits *)
(* runs without interruption, and handlers of different requests           *)
(* interleave at the awaits.  Each await on a store call or a provider     *)
(* call is therefore one action of the model; a store call either returns  *)
(* or throws, a provider call returns any of the responses the handler     *)
(* distinguishes.                                                          *)
(***************************************************************************)
EXTENDS Integers, Sequences, FiniteSets, TLC

\* ------------------------------------------------------------------ bounds

MaxConcurrent == 2  \* requests in progress at the same time
MaxRequests == 3    \* requests received over one run
MaxClock == 1       \* clock ticks of one run

\* --------------------------------------------------------------- constants

EXCHANGE_RATE == 30
MARKUP_PERCENTAGE == 20
V1_EXCHANGE_RATE == 1650
AUTO_REFUND_TIMEOUT == 25 * 60 * 1000

Procs == 1 .. MaxConcurrent

\* --------------------------------------------------------------------- ids
\* A request carries ids as strings; MongoDB documents created by the server
\* carry ObjectId _ids.  An id is a record of its representation and its text.

NullId == [kind |-> "null", hex |-> ""]
IdStr(h) == [kind |-> "str", hex |-> h]
Oid(h) == [kind |-> "oid", hex |-> h]

\* the strings ObjectId.isValid accepts
ValidHex == {"u1", "u2", "u9", "p1", "p9"}

toObjectId(id) ==
    IF id = NullId \/ id.hex = "" THEN NullId
    ELSE IF id.kind = "oid" THEN id
    ELSE IF id.hex \in ValidHex THEN Oid(id.hex)
    ELSE id

\* String(x) of an id
StringOf(id) == IdStr(id.hex)

\* ------------------------------------------------------------------- state

VARIABLES
    users,      \* users collection: _id -> [balance, cents]: the balance is
                \* balance + cents / 100, with cents in 0 .. 99
    products,   \* products collection: _id -> [price, stock]
    orders,     \* orders collection, in insertion order
    sms_orders, \* sms_orders collection, in insertion order (_id = position)
    timers,     \* sms order ids with a registered auto-refund callback
    now,        \* the clock, in milliseconds
    req,        \* the requests: position in the handler, locals, response
    nreq,       \* requests received so far
    transactions, \* transactions collection, in insertion order
    mysql,      \* the MySQL database of src/routes/products.js
    quote,      \* the provider's published cost and the prices computed from it
    allowed_services, \* allowed_services collection: _id -> service_name of its documents
    pg,         \* the Postgres database of src/routes/products.js (committed rows)
    accounts,   \* the users documents inserted by register, in insertion order
    ledger,     \* per user: the opening balance plus every top-up and verified payment credited
    mem         \* the InMemoryCollection objects created while db is null, and the last call's result

\* the state outside the MongoDB catalog and SMS collections
ext == <<transactions, mysql, quote, allowed_services, pg, accounts, ledger, mem>>

vars == <<users, products, orders, sms_orders, timers, now, req, nreq, ext>>

NoDoc == [found |-> FALSE]

UserIds == {Oid("u1"), Oid("u2")}
ProductIds == {Oid("p1")}

\* the data of a run: the balances users start with, the product's price
\* and the stock it starts with
PoorBalance == 50
RichBalance == 5000
InitBalances == {PoorBalance, RichBalance}
MaxStock == 2
InitStocks == 0 .. MaxStock
ProductPrice == 3000

\* what a request may carry as userId / productId
ReqUserIds == {IdStr("u1"), IdStr("u2"), IdStr("u9")}
ReqProductIds == {IdStr("p1"), IdStr("p9")}

\* the MySQL database of src/routes/products.js: integer ids, one user and
\* one product sold line by line from its product_link
SqlIds == {1}
SqlReqIds == {1, 9}
SqlBalance == 5000
SqlPrice == 2000
SqlPayload == <<"line1", "line2">>
SqlInit ==
    [users |-> [i \in SqlIds |-> [balance |-> SqlBalance]],
     products |-> [i \in SqlIds |->
                     [price |-> SqlPrice, stock |-> Len(SqlPayload),
                      product_link |-> SqlPayload]],
     orders |-> <<>>, sold |-> 0, errors |-> 0]

\* no cost published yet, no price computed
NoQuote == [cost100 |-> 0, live |-> -1, order |-> -1, liveV1 |-> -1, orderV1 |-> -1]

Idle ==
    [op |-> "idle", pc |-> "idle", userId |-> NullId, userIdObj |-> NullId,
     arg |-> NullId, orderId |-> 0, offer |-> "none",
     user |-> NoDoc, product |-> NoDoc, order |-> NoDoc,
     price |-> 0, alloc |-> "none", orderData |-> "undefined",
     status |-> 0, resp |-> "none", ret |-> "none",
     debited |-> 0, stockTaken |-> 0, inserted |-> 0, stockSeen |-> -1,
     sqlUser |-> 0, sqlProduct |-> 0, item |-> "none", lines |-> <<>>,
     tx |-> "none", need |-> -1, have |-> -1, haveCents |-> 0,
     amount |-> [kind |-> "undefined", value |-> 0], named |-> FALSE]

\* the Postgres tables holding the user and the product of the catalog
PgIds == {1}
PgReqIds == {1, 9}
PgDb(balance, stock) ==
    [users |-> [i \in PgIds |-> [balance |-> balance]],
     products |-> [i \in PgIds |-> [price |-> ProductPrice, stock |-> stock]],
     orders |-> <<>>]

\* the record of a store call made while db is null: none yet
NoCall == [op |-> "none", name |-> "none", email |-> "none", id |-> 0,
           found |-> FALSE, balance |-> 0, modifiedCount |-> 0]

\* no InMemoryCollection object exists and no call has been made
MemInit == [objs |-> <<>>, inserted |-> {}, last |-> NoCall]

Init ==
    /\ users \in [UserIds -> [balance : InitBalances, cents : {0}]]
    /\ users[Oid("u2")].balance = RichBalance
    /\ products \in [ProductIds -> [price : {ProductPrice}, stock : InitStocks]]
    /\ orders = <<>>
    /\ sms_orders = <<>>
    /\ timers = {}
    /\ now = 0
    /\ req = [p \in Procs |-> Idle]
    /\ nreq = 0
    /\ transactions = <<>>
    /\ mysql = SqlInit
    /\ quote = NoQuote
    /\ allowed_services = <<>>
    /\ accounts = <<>>
    /\ mem = MemInit
    /\ ledger = [id \in UserIds |-> users[id].balance]
    /\ pg = PgDb(users[Oid("u1")].balance, products[Oid("p1")].stock)

\* ------------------------------------------------------------ ledger store

\* collection.findOne({ _id: id })
FindOne(coll, id) ==
    IF id \in DOMAIN coll THEN [found |-> TRUE, id |-> id, doc |-> coll[id]] ELSE NoDoc

\* users.updateOne({ _id: id }, { $inc: { balance: delta } }): the matched
\* document's balance moves by delta; no document matched, nothing changes
IncBalance(coll, id, delta) ==
    IF id \in DOMAIN coll
    THEN [coll EXCEPT ![id].balance = @ + delta]
    ELSE coll

\* products.updateOne({ _id: id }, { $inc: { stock: delta } })
IncStock(coll, id, delta) ==
    IF id \in DOMAIN coll
    THEN [coll EXCEPT ![id].stock = @ + delta]
    ELSE coll

\* users.updateOne({ _id: id }, { $inc: { balance: -amount } }) for an amount
\* that need not be whole, given in hundredths
DecBalance100(coll, id, amount100) ==
    IF id \in DOMAIN coll
    THEN LET total100 == coll[id].balance * 100 + coll[id].cents - amount100
         IN [coll EXCEPT ![id].balance = total100 \div 100,
                         ![id].cents = total100 % 100]
    ELSE coll

\* modifiedCount of an updateOne on _id
Matched(coll, id) == IF id \in DOMAIN coll THEN 1 ELSE 0

\* the amount a top-up or a verified payment credited is entered for the
\* user whose balance the $inc matched
IncLedger(id, delta) ==
    IF id \in DOMAIN ledger
    THEN [ledger EXCEPT ![id] = @ + delta]
    ELSE ledger

\* a store call returns (TRUE) or throws (FALSE)
StoreOutcomes == BOOLEAN

\* res.status(code).json(...): the request is finished and the handler's
\* locals are gone; what it applied and answered is kept
Respond(r, code, kind) ==
    [r EXCEPT !.pc = "done", !.status = code, !.resp = kind,
              !.user = NoDoc, !.product = NoDoc, !.order = NoDoc,
              !.userId = NullId, !.offer = "none", !.orderId = 0,
              !.orderData = "undefined", !.lines = <<>>,
              !.sqlUser = 0, !.sqlProduct = 0, !.tx = "none"]

\* the catch block of a handler: res.status(500).json({ error: err.message })
Throw(r) == Respond(r, 500, "InternalError")

\* a slot is free before its first request and after a response
Free(p) == req[p].pc \in {"idle", "done"}

\* a request arrives: it takes the first free slot
CanStart(p) ==
    /\ nreq < MaxRequests
    /\ Free(p)
    /\ \A q \in Procs : q < p => ~Free(q)

\* the request r is received in slot p
Begin(p, r) ==
    /\ req' = [req EXCEPT ![p] = r]
    /\ nreq' = nreq + 1

\* ------------------------------------------- POST /api/products/purchase

StartPurchase(p, uid, pid) ==
    /\ CanStart(p)
    /\ Begin(p, [Idle EXCEPT !.op = "purchase", !.pc = "findProduct",
                              !.userId = uid, !.userIdObj = toObjectId(uid),
                              !.arg = pid])
    /\ UNCHANGED <<users, products, orders, sms_orders, timers, now, ext>>

\* products.findOne({ _id: productIdObj })
PurchaseFindProduct(p) ==
    LET r == req[p]
        product == FindOne(products, toObjectId(r.arg))
    IN /\ r.op = "purchase" /\ r.pc = "findProduct"
       /\ req' = [req EXCEPT ![p] =
                    IF ~product.found THEN [r EXCEPT !.pc = "findProductStr"]
                    ELSE [r EXCEPT !.pc = "findUser", !.product = product,
                                   !.stockSeen = product.doc.stock]]
       /\ UNCHANGED <<users, products, orders, sms_orders, timers, now, nreq, ext>>

\* the fallback: products.findOne({ _id: productId }) with the string id
PurchaseFindProductStr(p) ==
    LET r == req[p]
        productStr == FindOne(products, r.arg)
    IN /\ r.op = "purchase" /\ r.pc = "findProductStr"
       /\ req' = [req EXCEPT ![p] =
                    IF ~productStr.found THEN Respond(r, 404, "NotFound")
                    ELSE [r EXCEPT !.pc = "findUser", !.product = productStr,
                                   !.stockSeen = productStr.doc.stock]]
       /\ UNCHANGED <<users, products, orders, sms_orders, timers, now, nreq, ext>>

\* `Insufficient balance. Need ${need}, You have ${user.balance}`: need is
\* the amount the error message names as required; have and haveCents are
\* the whole part and the hundredths of the balance it names, the stored
\* balance of the user document
InsufficientBalance(r, need, user) ==
    Respond([r EXCEPT !.need = need, !.have = user.doc.balance,
                      !.haveCents = user.doc.cents],
            400, "InsufficientBalance")

\* processPurchase up to its first await: the two validations, on the user
\* and product documents read earlier
ProcessPurchase(r, user) ==
    IF user.doc.balance < r.product.doc.price
    THEN InsufficientBalance(r, r.product.doc.price, user)
    ELSE IF r.product.doc.stock < 1
    THEN Respond(r, 400, "OutOfStock")
    ELSE [r EXCEPT !.pc = "debit", !.user = user, !.price = r.product.doc.price]

\* purchaseProduct: users.findOne({ _id: userIdObj })
PurchaseFindUser(p) ==
    LET r == req[p]
        user == FindOne(users, r.userIdObj)
    IN /\ r.op = "purchase" /\ r.pc = "findUser"
       /\ req' = [req EXCEPT ![p] =
                    IF ~user.found THEN [r EXCEPT !.pc = "findUserStr"]
                    ELSE ProcessPurchase(r, user)]
       /\ UNCHANGED <<users, products, orders, sms_orders, timers, now, nreq, ext>>

\* the fallback: users.findOne({ _id: userIdStr })
PurchaseFindUserStr(p) ==
    LET r == req[p]
        userStr == FindOne(users, r.userId)
    IN /\ r.op = "purchase" /\ r.pc = "findUserStr"
       /\ req' = [req EXCEPT ![p] =
                    IF ~userStr.found THEN Respond(r, 404, "NotFound")
                    ELSE ProcessPurchase(r, userStr)]
       /\ UNCHANGED <<users, products, orders, sms_orders, timers, now, nreq, ext>>

\* users.updateOne({ _id: userId }, { $inc: { balance: -product.price } })
PurchaseDebit(p, ok) ==
    LET r == req[p]
    IN /\ r.op = "purchase" /\ r.pc = "debit"
       /\ IF ok
          THEN /\ users' = IncBalance(users, r.userIdObj, -r.price)
               /\ req' = [req EXCEPT ![p] =
                            [r EXCEPT !.pc = "decStock",
                                      !.debited = @ + r.price * Matched(users, r.userIdObj)]]
          ELSE /\ req' = [req EXCEPT ![p] = Throw(r)]
               /\ UNCHANGED users
       /\ UNCHANGED <<products, orders, sms_orders, timers, now, nreq, ext>>

\* products.updateOne({ _id: product._id }, { $inc: { stock: -1 } })
PurchaseDecStock(p, ok) ==
    LET r == req[p]
    IN /\ r.op = "purchase" /\ r.pc = "decStock"
       /\ IF ok
          THEN /\ products' = IncStock(products, r.product.id, -1)
               /\ req' = [req EXCEPT ![p] =
                            [r EXCEPT !.pc = "insertOrder",
                                      !.stockTaken = @ + Matched(products, r.product.id)]]
          ELSE /\ req' = [req EXCEPT ![p] = Throw(r)]
               /\ UNCHANGED products
       /\ UNCHANGED <<users, orders, sms_orders, timers, now, nreq, ext>>

\* orders.insertOne({ ..., type: 'PRODUCT', status: 'COMPLETED' }) and the
\* response res.json({ message: "Success", details })
PurchaseInsertOrder(p, ok) ==
    LET r == req[p]
    IN /\ r.op = "purchase" /\ r.pc = "insertOrder"
       /\ IF ok
          THEN /\ orders' = Append(orders,
                     [user_id |-> StringOf(r.userIdObj), price |-> r.price,
                      type |-> "PRODUCT", status |-> "COMPLETED",
                      paid |-> r.debited])
               /\ req' = [req EXCEPT ![p] =
                            Respond([r EXCEPT !.inserted = Len(orders) + 1], 200, "Success")]
          ELSE /\ req' = [req EXCEPT ![p] = Throw(r)]
               /\ UNCHANGED orders
       /\ UNCHANGED <<users, products, sms_orders, timers, now, nreq, ext>>

\* ---------------- POST /api/products/add, DELETE /api/products/delete/:id

\* Each of these handlers awaits one store call and answers without reading
\* the store again: the request is one step, taken when its call resolves.

\* the _id insertOne gives the document of POST /api/products/add
NewProductId == Oid("p2")

\* products.insertOne({ ...req.body, createdAt }) and its response
AddProduct(stock, ok) ==
    /\ nreq < MaxRequests
    /\ NewProductId \notin DOMAIN products
    /\ nreq' = nreq + 1
    /\ products' = IF ok
                   THEN [id \in DOMAIN products \cup {NewProductId} |->
                           IF id = NewProductId
                           THEN [price |-> ProductPrice, stock |-> stock]
                           ELSE products[id]]
                   ELSE products
    /\ UNCHANGED <<users, orders, sms_orders, timers, now, req, ext>>

\* products.deleteOne({ _id: toObjectId(req.params.id) }) and its response
DeleteProduct(pid, ok) ==
    /\ nreq < MaxRequests
    /\ nreq' = nreq + 1
    /\ products' = IF ok
                   THEN [id \in DOMAIN products \ {toObjectId(pid)} |-> products[id]]
                   ELSE products
    /\ UNCHANGED <<users, orders, sms_orders, timers, now, req, ext>>

ProductAdmin ==
    \/ \E stock \in InitStocks, ok \in StoreOutcomes : AddProduct(stock, ok)
    \/ \E pid \in ReqProductIds, ok \in StoreOutcomes : DeleteProduct(pid, ok)

Purchase ==
    \/ \E p \in Procs, uid \in ReqUserIds, pid \in ReqProductIds : StartPurchase(p, uid, pid)
    \/ \E p \in Procs :
          \/ PurchaseFindProduct(p)
          \/ PurchaseFindProductStr(p)
          \/ PurchaseFindUser(p)
          \/ PurchaseFindUserStr(p)
    \/ \E p \in Procs, ok \in StoreOutcomes :
          \/ PurchaseDebit(p, ok)
          \/ PurchaseDecStock(p, ok)
          \/ PurchaseInsertOrder(p, ok)

\* ----------------------- POST /api/products/purchase (the earlier server)

StartPurchaseV1(p, uid, pid) ==
    /\ CanStart(p)
    /\ Begin(p, [Idle EXCEPT !.op = "purchaseV1", !.pc = "findProduct",
                              !.userId = uid, !.userIdObj = toObjectId(uid),
                              !.arg = pid])
    /\ UNCHANGED <<users, products, orders, sms_orders, timers, now, ext>>

\* products.findOne({ _id: productIdObj }): no fallback on the string id
PurchaseV1FindProduct(p) ==
    LET r == req[p]
        product == FindOne(products, toObjectId(r.arg))
    IN /\ r.op = "purchaseV1" /\ r.pc = "findProduct"
       /\ req' = [req EXCEPT ![p] =
                    IF ~product.found THEN Respond(r, 404, "NotFound")
                    ELSE [r EXCEPT !.pc = "findUser", !.product = product,
                                   !.stockSeen = product.doc.stock]]
       /\ UNCHANGED <<users, products, orders, sms_orders, timers, now, nreq, ext>>

\* users.findOne({ _id: userIdObj }) and the balance check; the stock read
\* earlier is not looked at
PurchaseV1FindUser(p) ==
    LET r == req[p]
        user == FindOne(users, r.userIdObj)
    IN /\ r.op = "purchaseV1" /\ r.pc = "findUser"
       /\ req' = [req EXCEPT ![p] =
                    IF ~user.found THEN Respond(r, 404, "NotFound")
                    ELSE IF user.doc.balance < r.product.doc.price
                    THEN Respond(r, 400, "InsufficientBalance")
                    ELSE [r EXCEPT !.pc = "debit", !.user = user,
                                   !.price = r.product.doc.price]]
       /\ UNCHANGED <<users, products, orders, sms_orders, timers, now, nreq, ext>>

\* users.updateOne({ _id: userIdObj }, { $inc: { balance: -product.price } })
PurchaseV1Debit(p, ok) ==
    LET r == req[p]
    IN /\ r.op = "purchaseV1" /\ r.pc = "debit"
       /\ IF ok
          THEN /\ users' = IncBalance(users, r.userIdObj, -r.price)
               /\ req' = [req EXCEPT ![p] =
                            [r EXCEPT !.pc = "decStock",
                                      !.debited = @ + r.price * Matched(users, r.userIdObj)]]
          ELSE /\ req' = [req EXCEPT ![p] = Throw(r)]
               /\ UNCHANGED users
       /\ UNCHANGED <<products, orders, sms_orders, timers, now, nreq, ext>>

\* products.updateOne({ _id: productIdObj }, { $inc: { stock: -1 } })
PurchaseV1DecStock(p, ok) ==
    LET r == req[p]
        pid == toObjectId(r.arg)
    IN /\ r.op = "purchaseV1" /\ r.pc = "decStock"
       /\ IF ok
          THEN /\ products' = IncStock(products, pid, -1)
               /\ req' = [req EXCEPT ![p] =
                            [r EXCEPT !.pc = "insertOrder",
                                      !.stockTaken = @ + Matched(products, pid)]]
          ELSE /\ req' = [req EXCEPT ![p] = Throw(r)]
               /\ UNCHANGED products
       /\ UNCHANGED <<users, orders, sms_orders, timers, now, nreq, ext>>

\* orders.insertOne({ user_id: userId, ..., status: 'COMPLETED' })
PurchaseV1InsertOrder(p, ok) ==
    LET r == req[p]
    IN /\ r.op = "purchaseV1" /\ r.pc = "insertOrder"
       /\ IF ok
          THEN /\ orders' = Append(orders,
                     [user_id |-> r.userId, price |-> r.price,
                      type |-> "PRODUCT", status |-> "COMPLETED",
                      paid |-> r.debited])
               /\ req' = [req EXCEPT ![p] =
                            Respond([r EXCEPT !.inserted = Len(orders) + 1], 200, "Success")]
          ELSE /\ req' = [req EXCEPT ![p] = Throw(r)]
               /\ UNCHANGED orders
       /\ UNCHANGED <<users, products, sms_orders, timers, now, nreq, ext>>

PurchaseV1 ==
    \/ \E p \in Procs, uid \in ReqUserIds, pid \in ReqProductIds : StartPurchaseV1(p, uid, pid)
    \/ \E p \in Procs : PurchaseV1FindProduct(p) \/ PurchaseV1FindUser(p)
    \/ \E p \in Procs, ok \in StoreOutcomes :
          \/ PurchaseV1Debit(p, ok)
          \/ PurchaseV1DecStock(p, ok)
          \/ PurchaseV1InsertOrder(p, ok)

\* ------------------------- POST /purchase of src/routes/products.js (MySQL)
\* Every db.query is a statement of its own: there is no transaction.

\* SELECT ... WHERE id = ?: the rows of the table with that id
SqlRows(table, id) ==
    IF id \in DOMAIN table THEN [found |-> TRUE, id |-> id, doc |-> table[id]] ELSE NoDoc

\* product_link.split('\n').filter(l => l.trim() !== ""): product_link is
\* held as the sequence of its lines
SqlLines(product_link) == SelectSeq(product_link, LAMBDA l : l # "")

\* lines.shift(): the first line, undefined on an empty list
SqlShift(lines) == IF lines = <<>> THEN "undefined" ELSE Head(lines)

\* the lines left after lines.shift()
SqlRest(lines) == IF lines = <<>> THEN <<>> ELSE Tail(lines)

\* the catch block: res.status(500).json({ error: "Processing error" })
SqlThrow(db) == [db EXCEPT !.errors = @ + 1]

StartSqlPurchase(p, uid, pid) ==
    /\ CanStart(p)
    /\ Begin(p, [Idle EXCEPT !.op = "sqlPurchase", !.pc = "selectUser",
                              !.sqlUser = uid, !.sqlProduct = pid])
    /\ UNCHANGED <<users, products, orders, sms_orders, timers, now, ext>>

\* SELECT balance FROM users WHERE id = ?
SqlSelectUser(p) ==
    LET r == req[p]
    IN /\ r.op = "sqlPurchase" /\ r.pc = "selectUser"
       /\ req' = [req EXCEPT ![p] =
                    [r EXCEPT !.pc = "selectProduct",
                              !.user = SqlRows(mysql.users, r.sqlUser)]]
       /\ UNCHANGED <<users, products, orders, sms_orders, timers, now, nreq, ext>>

\* SELECT * FROM products WHERE id = ?, the validations, and the line to
\* deliver, the remaining lines and the new stock computed from the row read
SqlSelectProduct(p) ==
    LET r == req[p]
        product == SqlRows(mysql.products, r.sqlProduct)
        lines == SqlLines(product.doc.product_link)
    IN /\ r.op = "sqlPurchase" /\ r.pc = "selectProduct"
       /\ req' = [req EXCEPT ![p] =
                    IF ~r.user.found \/ ~product.found THEN Respond(r, 404, "NotFound")
                    ELSE IF product.doc.stock <= 0 THEN Respond(r, 400, "OutOfStock")
                    ELSE IF r.user.doc.balance < product.doc.price
                    THEN Respond(r, 400, "InsufficientBalance")
                    ELSE [r EXCEPT !.pc = "updateBalance", !.product = product,
                                   !.price = product.doc.price,
                                   !.stockSeen = product.doc.stock,
                                   !.item = SqlShift(lines),
                                   !.lines = SqlRest(lines)]]
       /\ UNCHANGED <<users, products, orders, sms_orders, timers, now, nreq, ext>>

\* UPDATE users SET balance = balance - ? WHERE id = ?
SqlUpdateBalance(p, ok) ==
    LET r == req[p]
    IN /\ r.op = "sqlPurchase" /\ r.pc = "updateBalance"
       /\ IF ok
          THEN /\ mysql' = [mysql EXCEPT !.users[r.sqlUser].balance = @ - r.price]
               /\ req' = [req EXCEPT ![p] =
                            [r EXCEPT !.pc = "updateProduct", !.debited = @ + r.price]]
          ELSE /\ mysql' = SqlThrow(mysql)
               /\ req' = [req EXCEPT ![p] = Throw(r)]
       /\ UNCHANGED <<users, products, orders, sms_orders, timers, now, nreq,
                      transactions, quote, allowed_services, pg, accounts, ledger, mem>>

\* UPDATE products SET product_link = ?, stock = ? WHERE id = ?: the
\* remaining lines and their number, as computed from the row read earlier
SqlUpdateProduct(p, ok) ==
    LET r == req[p]
    IN /\ r.op = "sqlPurchase" /\ r.pc = "updateProduct"
       /\ IF ok
          THEN /\ mysql' = IF r.sqlProduct \in DOMAIN mysql.products
                           THEN [mysql EXCEPT
                                   !.products[r.sqlProduct].product_link = r.lines,
                                   !.products[r.sqlProduct].stock = Len(r.lines)]
                           ELSE mysql
               /\ req' = [req EXCEPT ![p] =
                            [r EXCEPT !.pc = "insertOrder",
                                      !.stockTaken = Matched(mysql.products, r.sqlProduct)]]
          ELSE /\ mysql' = SqlThrow(mysql)
               /\ req' = [req EXCEPT ![p] = Throw(r)]
       /\ UNCHANGED <<users, products, orders, sms_orders, timers, now, nreq,
                      transactions, quote, allowed_services, pg, accounts, ledger, mem>>

\* INSERT INTO orders (..., product_link) VALUES (..., itemToDeliver) and
\* res.json({ message: "Purchase successful", item: itemToDeliver })
SqlInsertOrder(p, ok) ==
    LET r == req[p]
    IN /\ r.op = "sqlPurchase" /\ r.pc = "insertOrder"
       /\ IF ok
          THEN /\ mysql' = [mysql EXCEPT
                               !.orders = Append(@, [user_id |-> r.sqlUser,
                                                     price |-> r.price,
                                                     product_link |-> r.item]),
                               !.sold = @ + 1]
               /\ req' = [req EXCEPT ![p] =
                            Respond([r EXCEPT !.inserted = Len(mysql.orders) + 1,
                                              !.ret = r.item], 200, "Success")]
          ELSE /\ mysql' = SqlThrow(mysql)
               /\ req' = [req EXCEPT ![p] = Throw(r)]
       /\ UNCHANGED <<users, products, orders, sms_orders, timers, now, nreq,
                      transactions, quote, allowed_services, pg, accounts, ledger, mem>>

\* ------- POST /add, DELETE /delete/:id, PUT /update/:id (products.js, MySQL)

\* Each of these handlers awaits one statement and answers.

\* the id AUTO_INCREMENT gives the row of POST /add, the row it inserts and
\* the price and stock a PUT /update/:id sets
\* AUTO_INCREMENT: the id after those of the rows the table starts with
SqlNewId == Cardinality(SqlIds) + 1
SqlNewRow == [price |-> SqlPrice, stock |-> 1, product_link |-> <<"line3">>]
SqlEdit == [price |-> 1, stock |-> 9]

\* INSERT INTO products (category, name, price, product_link, details, stock)
SqlAddProduct(ok) ==
    /\ nreq < MaxRequests
    /\ SqlNewId \notin DOMAIN mysql.products
    /\ nreq' = nreq + 1
    /\ mysql' = IF ok
                THEN [mysql EXCEPT !.products =
                        [i \in DOMAIN mysql.products \cup {SqlNewId} |->
                           IF i = SqlNewId THEN SqlNewRow ELSE mysql.products[i]]]
                ELSE mysql
    /\ UNCHANGED <<users, products, orders, sms_orders, timers, now, req,
                   transactions, quote, allowed_services, pg, accounts, ledger, mem>>

\* DELETE FROM products WHERE id = ?
SqlDeleteProduct(id, ok) ==
    /\ nreq < MaxRequests
    /\ nreq' = nreq + 1
    /\ mysql' = IF ok
                THEN [mysql EXCEPT !.products =
                        [i \in DOMAIN mysql.products \ {id} |-> mysql.products[i]]]
                ELSE mysql
    /\ UNCHANGED <<users, products, orders, sms_orders, timers, now, req,
                   transactions, quote, allowed_services, pg, accounts, ledger, mem>>

\* UPDATE products SET name = ?, price = ?, stock = ?, details = ? WHERE id = ?
SqlEditProduct(id, ok) ==
    /\ nreq < MaxRequests
    /\ nreq' = nreq + 1
    /\ mysql' = IF ok /\ id \in DOMAIN mysql.products
                THEN [mysql EXCEPT !.products[id].price = SqlEdit.price,
                                   !.products[id].stock = SqlEdit.stock]
                ELSE mysql
    /\ UNCHANGED <<users, products, orders, sms_orders, timers, now, req,
                   transactions, quote, allowed_services, pg, accounts, ledger, mem>>

SqlAdmin ==
    \/ \E ok \in StoreOutcomes : SqlAddProduct(ok)
    \/ \E id \in SqlReqIds, ok \in StoreOutcomes :
          SqlDeleteProduct(id, ok) \/ SqlEditProduct(id, ok)

SqlPurchase ==
    \/ \E p \in Procs, uid \in SqlReqIds, pid \in SqlReqIds : StartSqlPurchase(p, uid, pid)
    \/ \E p \in Procs : SqlSelectUser(p) \/ SqlSelectProduct(p)
    \/ \E p \in Procs, ok \in StoreOutcomes :
          \/ SqlUpdateBalance(p, ok)
          \/ SqlUpdateProduct(p, ok)
          \/ SqlInsertOrder(p, ok)

\* ------------------------------- POST /purchase (routes/products.js, Postgres)

\* The statements of a request run in one transaction on one client.  pg
\* holds the committed rows; the changes of a transaction in progress are
\* held by its request (debited, stockTaken, inserted) and reach pg at COMMIT.
\* A SELECT reads committed rows.  An UPDATE locks its row until the
\* transaction ends: it waits while another transaction holds the row.

InPg(q) == req[q].op = "pgPurchase" /\ req[q].pc # "done"

\* another transaction in progress has updated the user's row
PgUserLocked(p) ==
    \E q \in Procs \ {p} :
        InPg(q) /\ req[q].debited > 0 /\ req[q].sqlUser = req[p].sqlUser

\* another transaction in progress has updated the product's row
PgProductLocked(p) ==
    \E q \in Procs \ {p} :
        InPg(q) /\ req[q].stockTaken > 0 /\ req[q].sqlProduct = req[p].sqlProduct

\* await client.query('ROLLBACK') followed by the response named
PgAbort(r, code, kind) == [r EXCEPT !.pc = "rollback", !.status = code, !.resp = kind]

\* the catch block: ROLLBACK, then res.status(500).json({ error: "Processing error" })
PgThrow(r) == PgAbort(r, 500, "InternalError")

\* pool.connect()
StartPgPurchase(p, uid, pid) ==
    /\ CanStart(p)
    /\ Begin(p, [Idle EXCEPT !.op = "pgPurchase", !.pc = "begin",
                              !.sqlUser = uid, !.sqlProduct = pid])
    /\ UNCHANGED <<users, products, orders, sms_orders, timers, now, ext>>

\* BEGIN
PgBegin(p) ==
    LET r == req[p]
    IN /\ r.op = "pgPurchase" /\ r.pc = "begin"
       /\ req' = [req EXCEPT ![p] = [r EXCEPT !.pc = "selectUser"]]
       /\ UNCHANGED <<users, products, orders, sms_orders, timers, now, nreq, ext>>

\* SELECT balance FROM users WHERE id = $1
PgSelectUser(p) ==
    LET r == req[p]
        userResult == SqlRows(pg.users, r.sqlUser)
    IN /\ r.op = "pgPurchase" /\ r.pc = "selectUser"
       /\ req' = [req EXCEPT ![p] =
                    IF ~userResult.found THEN PgAbort(r, 404, "NotFound")
                    ELSE [r EXCEPT !.pc = "selectProduct", !.user = userResult]]
       /\ UNCHANGED <<users, products, orders, sms_orders, timers, now, nreq, ext>>

\* SELECT * FROM products WHERE id = $1 and the validations: the stock
\* first, the balance second
PgSelectProduct(p) ==
    LET r == req[p]
        productResult == SqlRows(pg.products, r.sqlProduct)
    IN /\ r.op = "pgPurchase" /\ r.pc = "selectProduct"
       /\ req' = [req EXCEPT ![p] =
                    IF ~productResult.found THEN PgAbort(r, 404, "NotFound")
                    ELSE LET seen == [r EXCEPT !.stockSeen = productResult.doc.stock]
                         IN IF productResult.doc.stock <= 0
                            THEN PgAbort(seen, 400, "OutOfStock")
                            ELSE IF r.user.doc.balance < productResult.doc.price
                            THEN PgAbort(seen, 400, "InsufficientBalance")
                            ELSE [seen EXCEPT !.pc = "updateBalance",
                                              !.product = productResult,
                                              !.price = productResult.doc.price]]
       /\ UNCHANGED <<users, products, orders, sms_orders, timers, now, nreq, ext>>

\* UPDATE users SET balance = balance - $1 WHERE id = $2
PgUpdateBalance(p, ok) ==
    LET r == req[p]
    IN /\ r.op = "pgPurchase" /\ r.pc = "updateBalance"
       /\ ~PgUserLocked(p)
       /\ req' = [req EXCEPT ![p] =
                    IF ok THEN [r EXCEPT !.pc = "updateStock", !.debited = r.price]
                    ELSE PgThrow(r)]
       /\ UNCHANGED <<users, products, orders, sms_orders, timers, now, nreq, ext>>

\* UPDATE products SET stock = stock - 1 WHERE id = $1
PgUpdateStock(p, ok) ==
    LET r == req[p]
    IN /\ r.op = "pgPurchase" /\ r.pc = "updateStock"
       /\ ~PgProductLocked(p)
       /\ req' = [req EXCEPT ![p] =
                    IF ok THEN [r EXCEPT !.pc = "insertOrder",
                                         !.stockTaken = Matched(pg.products, r.sqlProduct)]
                    ELSE PgThrow(r)]
       /\ UNCHANGED <<users, products, orders, sms_orders, timers, now, nreq, ext>>

\* INSERT INTO orders (user_id, product_name, price, ...)
PgInsertOrder(p, ok) ==
    LET r == req[p]
    IN /\ r.op = "pgPurchase" /\ r.pc = "insertOrder"
       /\ req' = [req EXCEPT ![p] =
                    IF ok THEN [r EXCEPT !.pc = "commit", !.inserted = 1]
                    ELSE PgThrow(r)]
       /\ UNCHANGED <<users, products, orders, sms_orders, timers, now, nreq, ext>>

\* COMMIT and res.json({ message: "Purchase successful", ... }): the changes
\* of the transaction reach the tables together
PgCommit(p, ok) ==
    LET r == req[p]
    IN /\ r.op = "pgPurchase" /\ r.pc = "commit"
       /\ IF ok
          THEN /\ pg' = [pg EXCEPT
                            !.users[r.sqlUser].balance = @ - r.debited,
                            !.products = IncStock(@, r.sqlProduct, - r.stockTaken),
                            !.orders = Append(@, [user_id |-> r.sqlUser,
                                                  price |-> r.price,
                                                  paid |-> r.debited])]
               /\ req' = [req EXCEPT ![p] = Respond(r, 200, "Success")]
          ELSE /\ req' = [req EXCEPT ![p] = PgThrow(r)]
               /\ UNCHANGED pg
       /\ UNCHANGED <<users, products, orders, sms_orders, timers, now, nreq,
                      transactions, mysql, quote, allowed_services, accounts, ledger, mem>>

\* ROLLBACK and the response: the changes of the transaction are dropped.
\* A ROLLBACK that rejects before a validation answer, inside the try block,
\* reaches the catch block, which issues ROLLBACK again; one that rejects in
\* the catch block leaves the handler before res.status(500), and the
\* request is never answered.
PgRollback(p, ok) ==
    LET r == req[p]
        dropped == [r EXCEPT !.debited = 0, !.stockTaken = 0, !.inserted = 0]
    IN /\ r.op = "pgPurchase" /\ r.pc = "rollback"
       /\ req' = [req EXCEPT ![p] =
                    IF ok THEN Respond(dropped, r.status, r.resp)
                    ELSE IF r.resp = "InternalError" THEN Respond(dropped, 0, "NoAnswer")
                    ELSE PgThrow(r)]
       /\ UNCHANGED <<users, products, orders, sms_orders, timers, now, nreq, ext>>

\* ---- POST /add, DELETE /delete/:id, PUT /update/:id (products.js, Postgres)

\* Each of these handlers awaits one statement on the pool, outside any
\* transaction.  A DELETE or an UPDATE of a row waits while a transaction in
\* progress has updated that row.

\* the id the sequence gives the row of POST /add, and the price and stock a
\* PUT /update/:id sets
\* SERIAL: the id after those of the rows the table starts with
PgNewId == Cardinality(PgIds) + 1
PgEdit == [price |-> 9000, stock |-> 7]

\* a transaction in progress has updated the product row id
PgRowLocked(id) ==
    \E q \in Procs : InPg(q) /\ req[q].stockTaken > 0 /\ req[q].sqlProduct = id

\* INSERT INTO products (..., stock, created_at) VALUES (..., stock || 1, NOW())
PgAddProduct(stock, ok) ==
    /\ nreq < MaxRequests
    /\ PgNewId \notin DOMAIN pg.products
    /\ nreq' = nreq + 1
    /\ pg' = IF ok
             THEN [pg EXCEPT !.products =
                     [i \in DOMAIN pg.products \cup {PgNewId} |->
                        IF i = PgNewId
                        THEN [price |-> ProductPrice,
                              stock |-> IF stock = 0 THEN 1 ELSE stock]
                        ELSE pg.products[i]]]
             ELSE pg
    /\ UNCHANGED <<users, products, orders, sms_orders, timers, now, req,
                   transactions, mysql, quote, allowed_services, accounts, ledger, mem>>

\* DELETE FROM products WHERE id = $1 RETURNING id
PgDeleteProduct(id, ok) ==
    /\ nreq < MaxRequests
    /\ ~PgRowLocked(id)
    /\ nreq' = nreq + 1
    /\ pg' = IF ok
             THEN [pg EXCEPT !.products =
                     [i \in DOMAIN pg.products \ {id} |-> pg.products[i]]]
             ELSE pg
    /\ UNCHANGED <<users, products, orders, sms_orders, timers, now, req,
                   transactions, mysql, quote, allowed_services, accounts, ledger, mem>>

\* UPDATE products SET name = $1, price = $2, stock = $3, description = $4
\* WHERE id = $5 RETURNING id
PgEditProduct(id, ok) ==
    /\ nreq < MaxRequests
    /\ ~PgRowLocked(id)
    /\ nreq' = nreq + 1
    /\ pg' = IF ok /\ id \in DOMAIN pg.products
             THEN [pg EXCEPT !.products[id].price = PgEdit.price,
                             !.products[id].stock = PgEdit.stock]
             ELSE pg
    /\ UNCHANGED <<users, products, orders, sms_orders, timers, now, req,
                   transactions, mysql, quote, allowed_services, accounts, ledger, mem>>

PgAdmin ==
    \/ \E stock \in 0 .. 1, ok \in StoreOutcomes : PgAddProduct(stock, ok)
    \/ \E id \in PgReqIds, ok \in StoreOutcomes :
          PgDeleteProduct(id, ok) \/ PgEditProduct(id, ok)

PgPurchase ==
    \/ \E p \in Procs, uid \in PgReqIds, pid \in PgReqIds : StartPgPurchase(p, uid, pid)
    \/ \E p \in Procs : PgBegin(p) \/ PgSelectUser(p) \/ PgSelectProduct(p)
    \/ \E p \in Procs, ok \in StoreOutcomes :
          \/ PgRollback(p, ok)
          \/ PgUpdateBalance(p, ok)
          \/ PgUpdateStock(p, ok)
          \/ PgInsertOrder(p, ok)
          \/ PgCommit(p, ok)

\* ----------------------------------------------------- pricing converter

\* Math.ceil(n / d) for n >= 0, d > 0
CeilDiv(n, d) == (n + d - 1) \div d

\* Math.ceil(cost * EXCHANGE_RATE * (1 + MARKUP_PERCENTAGE / 100)), the cost
\* in hundredths of the provider's unit
SmsPrice(cost100) ==
    CeilDiv(cost100 * EXCHANGE_RATE * (100 + MARKUP_PERCENTAGE), 100 * 100)

\* the earlier server: Math.ceil(cost * 1650 * 1.20)
SmsPriceV1(cost100) ==
    CeilDiv(cost100 * V1_EXCHANGE_RATE * 120, 100 * 100)

\* GET /api/sms/live-config/:service: the price quoted for an operator
LiveConfigPrice(cost100) ==
    CeilDiv((cost100 * EXCHANGE_RATE) * (100 + MARKUP_PERCENTAGE), 100 * 100)

\* the earlier server's quote: Math.ceil(info.cost * 1650 * 1.20)
LiveConfigPriceV1(cost100) ==
    CeilDiv(cost100 * V1_EXCHANGE_RATE * 120, 100 * 100)

\* the costs the provider may publish, in hundredths: 0.01 .. 3.00, and 10
MaxCost100 == 300
GoldenCost100 == 1000
Costs100 == (1 .. MaxCost100) \cup {GoldenCost100}

\* the provider publishes the cost of an operator
PublishCost(cost100) ==
    /\ quote.cost100 = 0
    /\ quote' = [NoQuote EXCEPT !.cost100 = cost100]
    /\ UNCHANGED <<users, products, orders, sms_orders, timers, now, req, nreq,
                   transactions, mysql, allowed_services, pg, accounts, ledger, mem>>

\* each of the four places that price a number computes its price from the
\* published cost
PriceLiveConfig ==
    /\ quote.cost100 > 0 /\ quote.live = -1
    /\ quote' = [quote EXCEPT !.live = LiveConfigPrice(quote.cost100)]
    /\ UNCHANGED <<users, products, orders, sms_orders, timers, now, req, nreq,
                   transactions, mysql, allowed_services, pg, accounts, ledger, mem>>

PriceOrder ==
    /\ quote.cost100 > 0 /\ quote.order = -1
    /\ quote' = [quote EXCEPT !.order = SmsPrice(quote.cost100)]
    /\ UNCHANGED <<users, products, orders, sms_orders, timers, now, req, nreq,
                   transactions, mysql, allowed_services, pg, accounts, ledger, mem>>

PriceLiveConfigV1 ==
    /\ quote.cost100 > 0 /\ quote.liveV1 = -1
    /\ quote' = [quote EXCEPT !.liveV1 = LiveConfigPriceV1(quote.cost100)]
    /\ UNCHANGED <<users, products, orders, sms_orders, timers, now, req, nreq,
                   transactions, mysql, allowed_services, pg, accounts, ledger, mem>>

PriceOrderV1 ==
    /\ quote.cost100 > 0 /\ quote.orderV1 = -1
    /\ quote' = [quote EXCEPT !.orderV1 = SmsPriceV1(quote.cost100)]
    /\ UNCHANGED <<users, products, orders, sms_orders, timers, now, req, nreq,
                   transactions, mysql, allowed_services, pg, accounts, ledger, mem>>

Pricing ==
    \/ \E cost100 \in Costs100 : PublishCost(cost100)
    \/ PriceLiveConfig
    \/ PriceOrder
    \/ PriceLiveConfigV1
    \/ PriceOrderV1

\* ------------------------------------------------- phone provider (5sim)

\* process.env.FIVESIM_API_KEY is set in every run.

\* the (service, country, operator) of a request: a tuple the provider
\* offers, one it does not offer, or a request with a field missing
Offers == {"listed", "unlisted", "missing"}

\* the provider's cost of the offered tuple, in hundredths (2.5)
OfferCost100 == 250

\* GET /v1/guest/prices: the status of the answer
PriceResponses == {"ok", "notOk"}

\* GET /v1/user/buy/activation: the fetch rejects ("network"), or answers
\* with a status (ok or not) and a body: empty, an HTML page, text that is
\* not JSON, JSON without phone or id, JSON carrying phone and id
AllocBodies == {"empty", "html", "text", "json", "jsonPair"}
AllocResponses ==
    {[net |-> FALSE, ok |-> FALSE, body |-> "empty"]}
    \cup [net : {TRUE}, ok : BOOLEAN, body : AllocBodies]

\* GET /v1/user/check: the fetch rejects, or answers with an empty body,
\* text that is not JSON, the JSON text null, JSON without sms, JSON whose
\* sms[0] carries no code, JSON with sms[0].code
CheckResponses == {"network", "empty", "text", "null", "noSms", "smsNoCode", "sms"}

\* data.sms[0].code of an answer that has an sms[0]
CodeOf(cr) == IF cr = "sms" THEN "code" ELSE "undefined"

Terminal == {"COMPLETED", "CANCELLED", "EXPIRED"}

\* sms_orders.findOne({ _id }): _id is the document's position
FindOrder(id) ==
    IF id \in 1 .. Len(sms_orders)
    THEN [found |-> TRUE, id |-> id, doc |-> sms_orders[id]]
    ELSE NoDoc

\* the order ids a check or cancel request may name
MaxOrderId == 2
ReqOrderIds == 1 .. MaxOrderId

\* userId of an SMS order request: as for a purchase, or absent
SmsReqUserIds == ReqUserIds \cup {NullId}

\* --------------------------------------- POST /api/sms/order (server.js)

\* the handler up to its first await: the required fields
StartSmsOrder(p, uid, offer) ==
    /\ CanStart(p)
    /\ LET r == [Idle EXCEPT !.op = "smsOrder", !.pc = "fetchPrices",
                             !.userId = uid, !.offer = offer]
       IN Begin(p, IF uid = NullId \/ offer = "missing"
                   THEN Respond(r, 400, "InvalidInput")
                   ELSE r)
    /\ UNCHANGED <<users, products, orders, sms_orders, timers, now, ext>>

\* fetch of the provider's prices, the offer of the tuple, the final price
SmsFetchPrices(p, pr) ==
    LET r == req[p]
    IN /\ r.op = "smsOrder" /\ r.pc = "fetchPrices"
       /\ req' = [req EXCEPT ![p] =
                    IF pr = "notOk" THEN Respond(r, 400, "ServiceUnavailable")
                    ELSE IF r.offer # "listed" THEN Respond(r, 400, "ServiceUnavailable")
                    ELSE [r EXCEPT !.pc = "findUser",
                                   !.price = SmsPrice(OfferCost100),
                                   !.userIdObj = toObjectId(r.userId)]]
       /\ UNCHANGED <<users, products, orders, sms_orders, timers, now, nreq, ext>>

\* an SMS order that goes on to the allocation whatever the balance
SmsFindUserNoBalanceCheck(p) ==
    LET r == req[p]
        user == FindOne(users, r.userIdObj)
    IN /\ r.op = "smsOrder" /\ r.pc = "findUser"
       /\ req' = [req EXCEPT ![p] =
                    IF ~user.found THEN Respond(r, 404, "NotFound")
                    ELSE [r EXCEPT !.pc = "allocate", !.user = user]]
       /\ UNCHANGED <<users, products, orders, sms_orders, timers, now, nreq, ext>>

\* users.findOne({ _id: userIdObj }) and the balance check
SmsFindUser(p) ==
    LET r == req[p]
        user == FindOne(users, r.userIdObj)
    IN /\ r.op = "smsOrder" /\ r.pc = "findUser"
       /\ req' = [req EXCEPT ![p] =
                    IF ~user.found THEN Respond(r, 404, "NotFound")
                    ELSE IF user.doc.balance < r.price
                    THEN InsufficientBalance(r, r.price, user)
                    ELSE [r EXCEPT !.pc = "allocate", !.user = user]]
       /\ UNCHANGED <<users, products, orders, sms_orders, timers, now, nreq, ext>>

\* the allocation call and the handling of its answer.  The parsed answer
\* is assigned to the orderData declared inside the try block; the orderData
\* declared before the block, which the insert reads, is never assigned.
SmsAllocate(p, ar) ==
    LET r == req[p]
    IN /\ r.op = "smsOrder" /\ r.pc = "allocate"
       /\ req' = [req EXCEPT ![p] =
                    IF ~ar.net THEN Respond(r, 500, "ServiceUnavailable")
                    ELSE IF ar.body \in {"empty", "html", "text"}
                    THEN Respond(r, 400, "ServiceUnavailable")
                    ELSE IF ~ar.ok THEN Respond(r, 400, "ServiceUnavailable")
                    ELSE IF ar.body # "jsonPair" THEN Respond(r, 400, "ServiceUnavailable")
                    ELSE [r EXCEPT !.pc = "debit", !.alloc = "pair"]]
       /\ UNCHANGED <<users, products, orders, sms_orders, timers, now, nreq, ext>>

\* users.updateOne({ _id: userIdObj }, { $inc: { balance: -finalPrice } })
SmsDebit(p, ok) ==
    LET r == req[p]
    IN /\ r.op = "smsOrder" /\ r.pc = "debit"
       /\ IF ok
          THEN /\ users' = IncBalance(users, r.userIdObj, -r.price)
               /\ req' = [req EXCEPT ![p] =
                            [r EXCEPT !.pc = "insert",
                                      !.debited = @ + r.price * Matched(users, r.userIdObj)]]
          ELSE /\ req' = [req EXCEPT ![p] = Throw(r)]
               /\ UNCHANGED users
       /\ UNCHANGED <<products, orders, sms_orders, timers, now, nreq, ext>>

\* sms_orders.insertOne({ ..., phone: orderData.phone, ... }), then
\* setTimeout(..., AUTO_REFUND_TIMEOUT) and the response.  Building the
\* document reads orderData.phone of the outer orderData: on undefined that
\* is a TypeError, caught by the handler's catch block.
SmsInsert(p, ok) ==
    LET r == req[p]
        id == Len(sms_orders) + 1
    IN /\ r.op = "smsOrder" /\ r.pc = "insert"
       /\ IF r.orderData = "undefined" \/ ~ok
          THEN /\ req' = [req EXCEPT ![p] = Throw(r)]
               /\ UNCHANGED <<sms_orders, timers>>
          ELSE /\ sms_orders' = Append(sms_orders,
                     [user_id |-> StringOf(r.userId), price |-> r.price,
                      phone |-> r.orderData, activation_id |-> r.orderData,
                      status |-> "WAITING", sms_code |-> "null",
                      created_at |-> now, expires_at |-> now + AUTO_REFUND_TIMEOUT,
                      refunded |-> 0, paid |-> r.debited])
               /\ timers' = timers \cup {id}
               /\ req' = [req EXCEPT ![p] =
                            Respond([r EXCEPT !.inserted = id], 200, "Success")]
       /\ UNCHANGED <<users, products, orders, now, nreq, ext>>

SmsOrder ==
    \/ \E p \in Procs, uid \in SmsReqUserIds, offer \in Offers : StartSmsOrder(p, uid, offer)
    \/ \E p \in Procs, pr \in PriceResponses : SmsFetchPrices(p, pr)
    \/ \E p \in Procs : SmsFindUser(p)
    \/ \E p \in Procs, ar \in AllocResponses : SmsAllocate(p, ar)
    \/ \E p \in Procs, ok \in StoreOutcomes : SmsDebit(p, ok) \/ SmsInsert(p, ok)

\* ------------------------------ POST /api/sms/order (the earlier server)

StartSmsOrderV1(p, uid, offer) ==
    /\ CanStart(p)
    /\ Begin(p, [Idle EXCEPT !.op = "smsOrderV1", !.pc = "fetchPrices",
                             !.userId = uid, !.offer = offer])
    /\ UNCHANGED <<users, products, orders, sms_orders, timers, now, ext>>

\* priceData[service][country][operator].cost: a TypeError when the answer
\* does not list the tuple
V1FetchPrices(p, pr) ==
    LET r == req[p]
    IN /\ r.op = "smsOrderV1" /\ r.pc = "fetchPrices"
       /\ req' = [req EXCEPT ![p] =
                    IF r.offer # "listed" THEN Throw(r)
                    ELSE [r EXCEPT !.pc = "findUser",
                                   !.price = SmsPriceV1(OfferCost100),
                                   !.userIdObj = toObjectId(r.userId)]]
       /\ UNCHANGED <<users, products, orders, sms_orders, timers, now, nreq, ext>>

\* users.findOne and user.balance < price: a TypeError when no user matched
V1FindUser(p) ==
    LET r == req[p]
        user == FindOne(users, r.userIdObj)
    IN /\ r.op = "smsOrderV1" /\ r.pc = "findUser"
       /\ req' = [req EXCEPT ![p] =
                    IF ~user.found THEN Throw(r)
                    ELSE IF user.doc.balance < r.price
                    THEN Respond(r, 400, "InsufficientBalance")
                    ELSE [r EXCEPT !.pc = "allocate", !.user = user]]
       /\ UNCHANGED <<users, products, orders, sms_orders, timers, now, nreq, ext>>

\* the allocation call: orderRes.json() throws on a body that is not JSON;
\* of the parsed answer only orderRes.ok is looked at
V1Allocate(p, ar) ==
    LET r == req[p]
    IN /\ r.op = "smsOrderV1" /\ r.pc = "allocate"
       /\ req' = [req EXCEPT ![p] =
                    IF ~ar.net \/ ar.body \in {"empty", "html", "text"} THEN Throw(r)
                    ELSE IF ~ar.ok THEN Respond(r, 400, "ServiceUnavailable")
                    ELSE [r EXCEPT !.pc = "debit",
                                   !.alloc = IF ar.body = "jsonPair" THEN "pair" ELSE "nopair",
                                   !.orderData = IF ar.body = "jsonPair" THEN "pair" ELSE "nopair"]]
       /\ UNCHANGED <<users, products, orders, sms_orders, timers, now, nreq, ext>>

V1Debit(p, ok) ==
    LET r == req[p]
    IN /\ r.op = "smsOrderV1" /\ r.pc = "debit"
       /\ IF ok
          THEN /\ users' = IncBalance(users, r.userIdObj, -r.price)
               /\ req' = [req EXCEPT ![p] =
                            [r EXCEPT !.pc = "insert",
                                      !.debited = @ + r.price * Matched(users, r.userIdObj)]]
          ELSE /\ req' = [req EXCEPT ![p] = Throw(r)]
               /\ UNCHANGED users
       /\ UNCHANGED <<products, orders, sms_orders, timers, now, nreq, ext>>

\* sms_orders.insertOne({ user_id: userId, ..., status: 'WAITING' }): no
\* expires_at is stored and no timer is registered
V1Insert(p, ok) ==
    LET r == req[p]
        id == Len(sms_orders) + 1
    IN /\ r.op = "smsOrderV1" /\ r.pc = "insert"
       /\ IF ok
          THEN /\ sms_orders' = Append(sms_orders,
                     [user_id |-> r.userId, price |-> r.price,
                      phone |-> r.orderData, activation_id |-> r.orderData,
                      status |-> "WAITING", sms_code |-> "null",
                      created_at |-> now, expires_at |-> -1,
                      refunded |-> 0, paid |-> r.debited])
               /\ req' = [req EXCEPT ![p] =
                            Respond([r EXCEPT !.inserted = id], 200, "Success")]
          ELSE /\ req' = [req EXCEPT ![p] = Throw(r)]
               /\ UNCHANGED sms_orders
       /\ UNCHANGED <<users, products, orders, timers, now, nreq, ext>>

SmsOrderV1 ==
    \/ \E p \in Procs, uid \in ReqUserIds, offer \in Offers : StartSmsOrderV1(p, uid, offer)
    \/ \E p \in Procs, pr \in PriceResponses : V1FetchPrices(p, pr)
    \/ \E p \in Procs : V1FindUser(p)
    \/ \E p \in Procs, ar \in AllocResponses : V1Allocate(p, ar)
    \/ \E p \in Procs, ok \in StoreOutcomes : V1Debit(p, ok) \/ V1Insert(p, ok)

\* ------------------------------------------ GET /api/sms/check/:orderId

StartCheck(p, id) ==
    /\ CanStart(p)
    /\ Begin(p, [Idle EXCEPT !.op = "check", !.pc = "findOrder", !.orderId = id])
    /\ UNCHANGED <<users, products, orders, sms_orders, timers, now, ext>>

\* sms_orders.findOne({ _id: orderIdObj })
CheckFindOrder(p) ==
    LET r == req[p]
        order == FindOrder(r.orderId)
    IN /\ r.op \in {"check", "checkV1"} /\ r.pc = "findOrder"
       /\ req' = [req EXCEPT ![p] =
                    IF ~order.found THEN Respond(r, 404, "NotFound")
                    ELSE [r EXCEPT !.pc = "fetchCheck", !.order = order]]
       /\ UNCHANGED <<users, products, orders, sms_orders, timers, now, nreq, ext>>

\* the provider's answer: an empty body and text that is not JSON are
\* answered with the status read earlier; data.sms of null throws; the
\* test data.sms && data.sms[0] looks at the entry, not at its code, and
\* alloc is the code read from it; without an entry the status read
\* earlier is returned
CheckFetch(p, cr) ==
    LET r == req[p]
    IN /\ r.op = "check" /\ r.pc = "fetchCheck"
       /\ req' = [req EXCEPT ![p] =
                    IF cr \in {"network", "null"} THEN Throw(r)
                    ELSE IF cr \in {"sms", "smsNoCode"}
                    THEN [r EXCEPT !.pc = "setCompleted", !.alloc = CodeOf(cr)]
                    ELSE Respond([r EXCEPT !.ret = r.order.doc.status], 200, "Success")]
       /\ UNCHANGED <<users, products, orders, sms_orders, timers, now, nreq, ext>>

\* a check handler that sets the status and leaves sms_code as it was
CheckSetCompletedNoCode(p, ok) ==
    LET r == req[p]
    IN /\ r.op \in {"check", "checkV1"} /\ r.pc = "setCompleted"
       /\ IF ok
          THEN /\ sms_orders' = [sms_orders EXCEPT ![r.orderId].status = "COMPLETED"]
               /\ req' = [req EXCEPT ![p] =
                            Respond([r EXCEPT !.ret = "COMPLETED", !.item = r.alloc],
                                    200, "Success")]
          ELSE /\ req' = [req EXCEPT ![p] = Throw(r)]
               /\ UNCHANGED sms_orders
       /\ UNCHANGED <<users, products, orders, timers, now, nreq, ext>>

\* sms_orders.updateOne({ _id }, { $set: { sms_code: code, status: 'COMPLETED' } })
\* and res.json({ code, status: 'COMPLETED' }): item is the code returned
CheckSetCompleted(p, ok) ==
    LET r == req[p]
    IN /\ r.op \in {"check", "checkV1"} /\ r.pc = "setCompleted"
       /\ IF ok
          THEN /\ sms_orders' = [sms_orders EXCEPT ![r.orderId].sms_code = r.alloc,
                                                   ![r.orderId].status = "COMPLETED"]
               /\ req' = [req EXCEPT ![p] =
                            Respond([r EXCEPT !.ret = "COMPLETED", !.item = r.alloc],
                                    200, "Success")]
          ELSE /\ req' = [req EXCEPT ![p] = Throw(r)]
               /\ UNCHANGED sms_orders
       /\ UNCHANGED <<users, products, orders, timers, now, nreq, ext>>

\* GET /api/sms/check/:orderId of src/unnamed/part_003: the same findOne
\* and the same updateOne as above; the answer is read with checkRes.json()
StartCheckV1(p, id) ==
    /\ CanStart(p)
    /\ Begin(p, [Idle EXCEPT !.op = "checkV1", !.pc = "findOrder", !.orderId = id])
    /\ UNCHANGED <<users, products, orders, sms_orders, timers, now, ext>>

\* checkRes.json() throws on an empty body and on text that is not JSON
CheckV1Fetch(p, cr) ==
    LET r == req[p]
    IN /\ r.op = "checkV1" /\ r.pc = "fetchCheck"
       /\ req' = [req EXCEPT ![p] =
                    IF cr \in {"network", "empty", "text", "null"} THEN Throw(r)
                    ELSE IF cr \in {"sms", "smsNoCode"}
                    THEN [r EXCEPT !.pc = "setCompleted", !.alloc = CodeOf(cr)]
                    ELSE Respond([r EXCEPT !.ret = r.order.doc.status], 200, "Success")]
       /\ UNCHANGED <<users, products, orders, sms_orders, timers, now, nreq, ext>>

SmsCheckV1 ==
    \/ \E p \in Procs, id \in ReqOrderIds : StartCheckV1(p, id)
    \/ \E p \in Procs : CheckFindOrder(p)
    \/ \E p \in Procs, cr \in CheckResponses : CheckV1Fetch(p, cr)
    \/ \E p \in Procs, ok \in StoreOutcomes : CheckSetCompleted(p, ok)

SmsCheck ==
    \/ \E p \in Procs, id \in ReqOrderIds : StartCheck(p, id)
    \/ \E p \in Procs : CheckFindOrder(p)
    \/ \E p \in Procs, cr \in CheckResponses : CheckFetch(p, cr)
    \/ \E p \in Procs, ok \in StoreOutcomes : CheckSetCompleted(p, ok)

\* ---------------------------------------- POST /api/sms/cancel/:orderId

StartCancel(p, id) ==
    /\ CanStart(p)
    /\ Begin(p, [Idle EXCEPT !.op = "cancel", !.pc = "findOrder", !.orderId = id])
    /\ UNCHANGED <<users, products, orders, sms_orders, timers, now, ext>>

\* sms_orders.findOne({ _id: orderIdObj }) and the terminal-state check
CancelFindOrder(p) ==
    LET r == req[p]
        order == FindOrder(r.orderId)
    IN /\ r.op = "cancel" /\ r.pc = "findOrder"
       /\ req' = [req EXCEPT ![p] =
                    IF ~order.found THEN Respond(r, 404, "NotFound")
                    ELSE IF order.doc.status \in Terminal
                    THEN Respond(r, 400, "InvalidState")
                    ELSE [r EXCEPT !.pc = "refund", !.order = order,
                                   !.price = order.doc.price,
                                   !.userIdObj = toObjectId(order.doc.user_id)]]
       /\ UNCHANGED <<users, products, orders, sms_orders, timers, now, nreq, ext>>

\* a cancel that credits the refund to the account u2, whoever owns the order
CancelRefundFixedUser(p, ok) ==
    LET r == req[p]
        n == r.price * Matched(users, Oid("u2"))
    IN /\ r.op = "cancel" /\ r.pc = "refund"
       /\ IF ok
          THEN /\ users' = IncBalance(users, Oid("u2"), r.price)
               /\ sms_orders' = [sms_orders EXCEPT ![r.orderId].refunded = @ + n]
               /\ req' = [req EXCEPT ![p] =
                            [r EXCEPT !.pc = "setCancelled", !.debited = @ - n]]
          ELSE /\ req' = [req EXCEPT ![p] = Throw(r)]
               /\ UNCHANGED <<users, sms_orders>>
       /\ UNCHANGED <<products, orders, timers, now, nreq, ext>>

\* users.updateOne({ _id: userIdObj }, { $inc: { balance: order.price } })
CancelRefund(p, ok) ==
    LET r == req[p]
        n == r.price * Matched(users, r.userIdObj)
    IN /\ r.op = "cancel" /\ r.pc = "refund"
       /\ IF ok
          THEN /\ users' = IncBalance(users, r.userIdObj, r.price)
               /\ sms_orders' = [sms_orders EXCEPT ![r.orderId].refunded = @ + n]
               /\ req' = [req EXCEPT ![p] =
                            [r EXCEPT !.pc = "setCancelled", !.debited = @ - n]]
          ELSE /\ req' = [req EXCEPT ![p] = Throw(r)]
               /\ UNCHANGED <<users, sms_orders>>
       /\ UNCHANGED <<products, orders, timers, now, nreq, ext>>

\* sms_orders.updateOne({ _id }, { $set: { status: 'CANCELLED' } })
CancelSetCancelled(p, ok) ==
    LET r == req[p]
    IN /\ r.op = "cancel" /\ r.pc = "setCancelled"
       /\ IF ok
          THEN /\ sms_orders' = [sms_orders EXCEPT ![r.orderId].status = "CANCELLED"]
               /\ req' = [req EXCEPT ![p] = Respond(r, 200, "Success")]
          ELSE /\ req' = [req EXCEPT ![p] = Throw(r)]
               /\ UNCHANGED sms_orders
       /\ UNCHANGED <<users, products, orders, timers, now, nreq, ext>>

SmsCancel ==
    \/ \E p \in Procs, id \in ReqOrderIds : StartCancel(p, id)
    \/ \E p \in Procs : CancelFindOrder(p)
    \/ \E p \in Procs, ok \in StoreOutcomes : CancelRefund(p, ok) \/ CancelSetCancelled(p, ok)

\* ------------------------------------------------- POST /api/smm/order

\* the provider's catalog: one service, its rate per 1000 units in
\* hundredths ("0.50"); the services and quantities a request may name
SmmRate100 == 50
SmmServices == {"s1"}
SmmReqServices == {"s1", "s9"}
SmmQuantities == {100, 100000}

\* (parseFloat(serviceData.rate) * 1.20 * quantity) / 1000, in hundredths:
\* the price is not rounded
SmmPrice100(rate100, quantity) == (rate100 * 120 * quantity) \div (100 * 1000)

\* POST action=add: axios rejects ("rejected"), or the provider answers 2xx
\* with an order id ("order") or with an error body and no order ("error")
SubmitResponses == {"rejected", "order", "error"}

StartSmm(p, uid, service, quantity) ==
    /\ CanStart(p)
    /\ Begin(p, [Idle EXCEPT !.op = "smmOrder", !.pc = "fetchServices",
                              !.userId = uid, !.offer = service,
                              !.orderId = quantity])
    /\ UNCHANGED <<users, products, orders, sms_orders, timers, now, ext>>

\* GET action=services, the service's entry and the price
SmmFetchServices(p, answered) ==
    LET r == req[p]
    IN /\ r.op = "smmOrder" /\ r.pc = "fetchServices"
       /\ req' = [req EXCEPT ![p] =
                    IF ~answered THEN Throw(r)
                    ELSE IF r.offer \notin SmmServices THEN Respond(r, 400, "NotFound")
                    ELSE [r EXCEPT !.pc = "findUser",
                                   !.price = SmmPrice100(SmmRate100, r.orderId),
                                   !.userIdObj = toObjectId(r.userId)]]
       /\ UNCHANGED <<users, products, orders, sms_orders, timers, now, nreq, ext>>

\* users.findOne and user.balance < price: a TypeError when no user matched
SmmFindUser(p) ==
    LET r == req[p]
        user == FindOne(users, r.userIdObj)
    IN /\ r.op = "smmOrder" /\ r.pc = "findUser"
       /\ req' = [req EXCEPT ![p] =
                    IF ~user.found THEN Throw(r)
                    ELSE IF user.doc.balance * 100 + user.doc.cents < r.price
                    THEN Respond(r, 400, "InsufficientBalance")
                    ELSE [r EXCEPT !.pc = "submit", !.user = user]]
       /\ UNCHANGED <<users, products, orders, sms_orders, timers, now, nreq, ext>>

\* the order is submitted to the provider; of its answer only data.order is
\* read, for the details of the order record
SmmSubmit(p, sr) ==
    LET r == req[p]
    IN /\ r.op = "smmOrder" /\ r.pc = "submit"
       /\ req' = [req EXCEPT ![p] =
                    IF sr = "rejected" THEN Throw([r EXCEPT !.alloc = "rejected"])
                    ELSE [r EXCEPT !.pc = "debit",
                                   !.alloc = IF sr = "order" THEN "order" ELSE "noorder"]]
       /\ UNCHANGED <<users, products, orders, sms_orders, timers, now, nreq, ext>>

\* users.updateOne({ _id: userIdObj }, { $inc: { balance: -price } })
SmmDebit(p, ok) ==
    LET r == req[p]
    IN /\ r.op = "smmOrder" /\ r.pc = "debit"
       /\ IF ok
          THEN /\ users' = DecBalance100(users, r.userIdObj, r.price)
               /\ req' = [req EXCEPT ![p] =
                            [r EXCEPT !.pc = "insert",
                                      !.debited = @ + r.price * Matched(users, r.userIdObj)]]
          ELSE /\ req' = [req EXCEPT ![p] = Throw(r)]
               /\ UNCHANGED users
       /\ UNCHANGED <<products, orders, sms_orders, timers, now, nreq, ext>>

\* details: `Order ID: ${orderRes.data.order}`
SmmDetails(alloc) == IF alloc = "order" THEN "Order ID: 1" ELSE "Order ID: undefined"

\* orders.insertOne({ ..., price, type: 'SMM', status: 'PENDING' }): the
\* price of an SMM order record is in hundredths
SmmInsert(p, ok) ==
    LET r == req[p]
    IN /\ r.op = "smmOrder" /\ r.pc = "insert"
       /\ IF ok
          THEN /\ orders' = Append(orders,
                     [user_id |-> r.userId, price |-> r.price,
                      type |-> "SMM", status |-> "PENDING",
                      details |-> SmmDetails(r.alloc),
                      paid |-> r.debited])
               /\ req' = [req EXCEPT ![p] =
                            Respond([r EXCEPT !.inserted = Len(orders) + 1], 200, "Success")]
          ELSE /\ req' = [req EXCEPT ![p] = Throw(r)]
               /\ UNCHANGED orders
       /\ UNCHANGED <<users, products, sms_orders, timers, now, nreq, ext>>

SmmOrder ==
    \/ \E p \in Procs, uid \in ReqUserIds, service \in SmmReqServices,
          quantity \in SmmQuantities : StartSmm(p, uid, service, quantity)
    \/ \E p \in Procs, answered \in BOOLEAN : SmmFetchServices(p, answered)
    \/ \E p \in Procs : SmmFindUser(p)
    \/ \E p \in Procs, sr \in SubmitResponses : SmmSubmit(p, sr)
    \/ \E p \in Procs, ok \in StoreOutcomes : SmmDebit(p, ok) \/ SmmInsert(p, ok)

\* ---------------------------------------- POST /api/auth/verify-payment

\* the transaction ids of the payment gateway: the gateway's answer for an
\* id is always the same, a successful payment of PaymentAmount or a payment
\* that did not succeed
PaymentAmount == 1000
TxIds == {"tx1", "tx2"}
Gateway(tx) ==
    IF tx = "tx1" THEN [status |-> "successful", amount |-> PaymentAmount]
    ELSE [status |-> "failed", amount |-> PaymentAmount]

StartVerify(p, uid, tx) ==
    /\ CanStart(p)
    /\ Begin(p, [Idle EXCEPT !.op = "verify", !.pc = "gateway",
                              !.userId = uid, !.tx = tx])
    /\ UNCHANGED <<users, products, orders, sms_orders, timers, now, ext>>

\* axios.get(.../transactions/<id>/verify): axios rejects on a network
\* error or a status outside 2xx; otherwise data.status decides
VerifyGateway(p, answered) ==
    LET r == req[p]
        data == Gateway(r.tx)
    IN /\ r.op = "verify" /\ r.pc = "gateway"
       /\ req' = [req EXCEPT ![p] =
                    IF ~answered THEN Throw(r)
                    ELSE IF data.status # "successful"
                    THEN Respond(r, 400, "PaymentNotSuccessful")
                    ELSE [r EXCEPT !.pc = "credit", !.price = data.amount,
                                   !.userIdObj = toObjectId(r.userId)]]
       /\ UNCHANGED <<users, products, orders, sms_orders, timers, now, nreq, ext>>

\* users.updateOne({ _id: userIdObj }, { $inc: { balance: amount } })
VerifyCredit(p, ok) ==
    LET r == req[p]
    IN /\ r.op = "verify" /\ r.pc = "credit"
       /\ IF ok
          THEN /\ users' = IncBalance(users, r.userIdObj, r.price)
               /\ ledger' = IncLedger(r.userIdObj, r.price)
               /\ req' = [req EXCEPT ![p] =
                            [r EXCEPT !.pc = "insert",
                                      !.debited = @ - r.price * Matched(users, r.userIdObj)]]
          ELSE /\ req' = [req EXCEPT ![p] = Throw(r)]
               /\ UNCHANGED <<users, ledger>>
       /\ UNCHANGED <<products, orders, sms_orders, timers, now, nreq,
                      transactions, mysql, quote, allowed_services, pg, accounts, mem>>

\* transactions.insertOne({ user_id, transaction_id, amount, status })
VerifyInsert(p, ok) ==
    LET r == req[p]
    IN /\ r.op = "verify" /\ r.pc = "insert"
       /\ IF ok
          THEN /\ transactions' = Append(transactions,
                     [user_id |-> r.userId, transaction_id |-> r.tx,
                      amount |-> r.price, status |-> "successful"])
               /\ req' = [req EXCEPT ![p] =
                            Respond([r EXCEPT !.inserted = Len(transactions) + 1],
                                    200, "Success")]
          ELSE /\ req' = [req EXCEPT ![p] = Throw(r)]
               /\ UNCHANGED transactions
       /\ UNCHANGED <<users, products, orders, sms_orders, timers, now, nreq,
                      mysql, quote, allowed_services, pg, accounts, ledger, mem>>

Verify ==
    \/ \E p \in Procs, uid \in ReqUserIds, tx \in TxIds : StartVerify(p, uid, tx)
    \/ \E p \in Procs, answered \in BOOLEAN : VerifyGateway(p, answered)
    \/ \E p \in Procs, ok \in StoreOutcomes : VerifyCredit(p, ok) \/ VerifyInsert(p, ok)

\* ----------------------------------------------- POST /api/auth/register

\* email of a registration request: addresses no stored user has yet
RegEmails == {"a@x", "b@x"}

StartRegister(p, email) ==
    /\ CanStart(p)
    /\ Begin(p, [Idle EXCEPT !.op = "register", !.pc = "findEmail", !.item = email])
    /\ UNCHANGED <<users, products, orders, sms_orders, timers, now, ext>>

\* users.findOne({ email })
RegisterFind(p) ==
    LET r == req[p]
        existing == \E i \in DOMAIN accounts : accounts[i].email = r.item
    IN /\ r.op = "register" /\ r.pc = "findEmail"
       /\ req' = [req EXCEPT ![p] =
                    IF existing THEN Respond(r, 400, "AlreadyExists")
                    ELSE [r EXCEPT !.pc = "genSalt"]]
       /\ UNCHANGED <<users, products, orders, sms_orders, timers, now, nreq, ext>>

\* bcryptjs.genSalt(10)
RegisterGenSalt(p) ==
    LET r == req[p]
    IN /\ r.op = "register" /\ r.pc = "genSalt"
       /\ req' = [req EXCEPT ![p] = [r EXCEPT !.pc = "hash"]]
       /\ UNCHANGED <<users, products, orders, sms_orders, timers, now, nreq, ext>>

\* bcryptjs.hash(password, salt)
RegisterHash(p) ==
    LET r == req[p]
    IN /\ r.op = "register" /\ r.pc = "hash"
       /\ req' = [req EXCEPT ![p] = [r EXCEPT !.pc = "insertUser"]]
       /\ UNCHANGED <<users, products, orders, sms_orders, timers, now, nreq, ext>>

\* users.insertOne({ username, email, password, balance: 0, role: 'user' })
RegisterInsert(p, ok) ==
    LET r == req[p]
    IN /\ r.op = "register" /\ r.pc = "insertUser"
       /\ IF ok
          THEN /\ accounts' = Append(accounts, [email |-> r.item, balance |-> 0])
               /\ req' = [req EXCEPT ![p] =
                            Respond([r EXCEPT !.inserted = Len(accounts) + 1],
                                    201, "Success")]
          ELSE /\ req' = [req EXCEPT ![p] = Throw(r)]
               /\ UNCHANGED accounts
       /\ UNCHANGED <<users, products, orders, sms_orders, timers, now, nreq,
                      transactions, mysql, quote, allowed_services, pg, ledger, mem>>

Register ==
    \/ \E p \in Procs, email \in RegEmails : StartRegister(p, email)
    \/ \E p \in Procs : RegisterFind(p) \/ RegisterGenSalt(p) \/ RegisterHash(p)
    \/ \E p \in Procs, ok \in StoreOutcomes : RegisterInsert(p, ok)

\* -------------------------------------------------- POST /api/auth/topup

\* amount of a top-up request: absent, text that is not a number ("abc"),
\* or a number: zero, negative, positive
TopupAmount == 100
Amounts ==
    {[kind |-> "undefined", value |-> 0], [kind |-> "text", value |-> 0]}
    \cup [kind : {"number"}, value : {0, -TopupAmount, TopupAmount}]

\* isNaN(amount)
isNaN(amount) == amount.kind # "number"

\* !amount || isNaN(amount) || amount <= 0
InvalidAmount(amount) == isNaN(amount) \/ amount.value <= 0

\* the validations of server.js; named records whether the request carries
\* a user id, and a negative debited is the amount credited
StartTopup(p, uid, amount) ==
    /\ CanStart(p)
    /\ LET r == [Idle EXCEPT !.op = "topup", !.pc = "findUser",
                             !.userId = uid, !.userIdObj = toObjectId(uid),
                             !.amount = amount, !.named = (uid # NullId)]
       IN Begin(p, IF InvalidAmount(amount) THEN Respond(r, 400, "InvalidInput")
                   ELSE IF uid = NullId THEN Respond(r, 400, "InvalidInput")
                   ELSE r)
    /\ UNCHANGED <<users, products, orders, sms_orders, timers, now, ext>>

\* users.findOne({ _id: userIdObj })
TopupFindUser(p) ==
    LET r == req[p]
        user == FindOne(users, r.userIdObj)
    IN /\ r.op = "topup" /\ r.pc = "findUser"
       /\ req' = [req EXCEPT ![p] =
                    IF ~user.found THEN Respond(r, 404, "NotFound")
                    ELSE [r EXCEPT !.pc = "credit"]]
       /\ UNCHANGED <<users, products, orders, sms_orders, timers, now, nreq, ext>>

\* users.updateOne({ _id: userIdObj }, { $inc: { balance: parseFloat(amount) } })
\* and the test of result.modifiedCount
TopupCredit(p, ok) ==
    LET r == req[p]
        modifiedCount == Matched(users, r.userIdObj)
    IN /\ r.op = "topup" /\ r.pc = "credit"
       /\ IF ok
          THEN /\ users' = IncBalance(users, r.userIdObj, r.amount.value)
               /\ ledger' = IncLedger(r.userIdObj, r.amount.value)
               /\ req' = [req EXCEPT ![p] =
                            IF modifiedCount = 0 THEN Respond(r, 500, "InternalError")
                            ELSE [r EXCEPT !.pc = "readBack",
                                           !.debited = @ - r.amount.value]]
          ELSE /\ req' = [req EXCEPT ![p] = Throw(r)]
               /\ UNCHANGED <<users, ledger>>
       /\ UNCHANGED <<products, orders, sms_orders, timers, now, nreq,
                      transactions, mysql, quote, allowed_services, pg, accounts, mem>>

\* users.findOne({ _id: userIdObj }) and res.json({ msg, newBalance }):
\* have and haveCents are the whole part and the hundredths of the
\* newBalance of the response
TopupReadBack(p) ==
    LET r == req[p]
        updatedUser == FindOne(users, r.userIdObj)
    IN /\ r.op = "topup" /\ r.pc = "readBack"
       /\ req' = [req EXCEPT ![p] =
                    IF ~updatedUser.found THEN Throw(r)
                    ELSE Respond([r EXCEPT !.have = updatedUser.doc.balance,
                                           !.haveCents = updatedUser.doc.cents],
                                 200, "Success")]
       /\ UNCHANGED <<users, products, orders, sms_orders, timers, now, nreq, ext>>

Topup ==
    \/ \E p \in Procs, uid \in SmsReqUserIds, amount \in Amounts : StartTopup(p, uid, amount)
    \/ \E p \in Procs : TopupFindUser(p) \/ TopupReadBack(p)
    \/ \E p \in Procs, ok \in StoreOutcomes : TopupCredit(p, ok)

\* ------------------------------------- POST /topup (routes/auth.js, MySQL)

\* userId of a request to the MySQL routes: a row's id, or absent (0)
SqlTopupUserIds == SqlReqIds \cup {0, Cardinality(SqlIds) + 1}

\* POST /register (auth.js): bcrypt.genSalt and bcrypt.hash, which touch no
\* table, then INSERT INTO users (username, email, password, balance) VALUES
\* (?, ?, ?, 0.00); the id is the AUTO_INCREMENT one, users are never deleted.
\* An INSERT the database rejects answers 500.
SqlRegister(ok) ==
    LET id == Cardinality(DOMAIN mysql.users) + 1
    IN /\ nreq < MaxRequests
       /\ nreq' = nreq + 1
       /\ mysql' = IF ok
                   THEN [mysql EXCEPT !.users =
                           [i \in DOMAIN mysql.users \cup {id} |->
                              IF i = id THEN [balance |-> 0] ELSE mysql.users[i]]]
                   ELSE mysql
       /\ UNCHANGED <<users, products, orders, sms_orders, timers, now, req,
                      transactions, quote, allowed_services, pg, accounts, ledger, mem>>

\* the one validation: if (isNaN(amount))
StartSqlTopup(p, uid, amount) ==
    /\ CanStart(p)
    /\ LET r == [Idle EXCEPT !.op = "sqlTopup", !.pc = "execute",
                             !.sqlUser = uid, !.amount = amount,
                             !.named = (uid # 0)]
       IN Begin(p, IF isNaN(amount) THEN Respond(r, 400, "InvalidInput") ELSE r)
    /\ UNCHANGED <<users, products, orders, sms_orders, timers, now, ext>>

\* pool.execute('UPDATE users SET balance = balance + ? WHERE id = ?',
\* [amount, userId]) and the test of result.affectedRows; execute throws on
\* an undefined bind parameter
SqlTopupExecute(p, ok) ==
    LET r == req[p]
        affectedRows == IF r.sqlUser \in DOMAIN mysql.users THEN 1 ELSE 0
    IN /\ r.op = "sqlTopup" /\ r.pc = "execute"
       /\ IF ok /\ r.named
          THEN /\ mysql' = IF affectedRows = 0 THEN mysql
                           ELSE [mysql EXCEPT !.users[r.sqlUser].balance =
                                                 @ + r.amount.value]
               /\ req' = [req EXCEPT ![p] =
                            IF affectedRows = 0 THEN Respond(r, 404, "NotFound")
                            ELSE Respond([r EXCEPT !.debited = @ - r.amount.value],
                                         200, "Success")]
          ELSE /\ req' = [req EXCEPT ![p] = Throw(r)]
               /\ UNCHANGED mysql
       /\ UNCHANGED <<users, products, orders, sms_orders, timers, now, nreq,
                      transactions, quote, allowed_services, pg, accounts, ledger, mem>>

SqlAccounts == \E ok \in StoreOutcomes : SqlRegister(ok)

SqlTopup ==
    \/ \E p \in Procs, uid \in SqlTopupUserIds, amount \in Amounts : StartSqlTopup(p, uid, amount)
    \/ \E p \in Procs, ok \in StoreOutcomes : SqlTopupExecute(p, ok)

\* ------------------------------------------------------------------ clock

\* ------------------------------------------- POST /api/sms/add-allowed

\* the service the tuples of SMS order requests name
SmsService == "svc"

\* service_name of an add-allowed request: absent, or a name in some case
ReqServiceNames == {"undefined", "svc", "SVC"}

\* service_name.toLowerCase()
toLowerCase(name) == IF name = "SVC" THEN "svc" ELSE name

\* allowed_services.findOne({ service_name }): some document has the name
Listed(name) == \E id \in DOMAIN allowed_services : allowed_services[id] = name

\* the _id insertOne gives a new document: one no document has
NewAllowedId ==
    CHOOSE n \in 1 .. MaxRequests :
        /\ n \notin DOMAIN allowed_services
        /\ \A m \in 1 .. (n - 1) : m \in DOMAIN allowed_services

\* req.params.id of a delete-allowed request: the _id of a document that was
\* inserted, or one that names no document
AllowedReqIds == (1 .. MaxConcurrent) \cup {MaxRequests + 1}

StartAddAllowed(p, name) ==
    /\ CanStart(p)
    /\ LET r == [Idle EXCEPT !.op = "addAllowed", !.pc = "findAllowed",
                             !.offer = name]
       IN Begin(p, IF name = "undefined" THEN Throw(r) ELSE r)
    /\ UNCHANGED <<users, products, orders, sms_orders, timers, now, ext>>

\* allowed_services.findOne({ service_name: service_name.toLowerCase() })
AddAllowedFind(p) ==
    LET r == req[p]
    IN /\ r.op = "addAllowed" /\ r.pc = "findAllowed"
       /\ req' = [req EXCEPT ![p] =
                    IF Listed(toLowerCase(r.offer))
                    THEN Respond(r, 400, "AlreadyExists")
                    ELSE [r EXCEPT !.pc = "insertAllowed"]]
       /\ UNCHANGED <<users, products, orders, sms_orders, timers, now, nreq, ext>>

\* allowed_services.insertOne({ service_name: service_name.toLowerCase(), ... })
AddAllowedInsert(p, ok) ==
    LET r == req[p]
    IN /\ r.op = "addAllowed" /\ r.pc = "insertAllowed"
       /\ IF ok
          THEN /\ allowed_services' =
                     [id \in DOMAIN allowed_services \cup {NewAllowedId} |->
                        IF id = NewAllowedId THEN toLowerCase(r.offer)
                        ELSE allowed_services[id]]
               /\ req' = [req EXCEPT ![p] = Respond(r, 200, "Success")]
          ELSE /\ req' = [req EXCEPT ![p] = Throw(r)]
               /\ UNCHANGED allowed_services
       /\ UNCHANGED <<users, products, orders, sms_orders, timers, now, nreq,
                      transactions, mysql, quote, pg, accounts, ledger, mem>>

\* DELETE /api/sms/delete-allowed/:id: allowed_services.deleteOne({ _id }),
\* one store call, which removes the one document of that _id if there is one
DeleteAllowed(id, ok) ==
    /\ nreq < MaxRequests
    /\ nreq' = nreq + 1
    /\ allowed_services' = IF ok THEN [i \in DOMAIN allowed_services \ {id} |->
                                         allowed_services[i]]
                           ELSE allowed_services
    /\ UNCHANGED <<users, products, orders, sms_orders, timers, now, req,
                   transactions, mysql, quote, pg, accounts, ledger, mem>>

AllowedAdmin ==
    \E id \in AllowedReqIds, ok \in StoreOutcomes : DeleteAllowed(id, ok)

AddAllowed ==
    \/ \E p \in Procs, name \in ReqServiceNames : StartAddAllowed(p, name)
    \/ \E p \in Procs : AddAllowedFind(p)
    \/ \E p \in Procs, ok \in StoreOutcomes : AddAllowedInsert(p, ok)

\* time passes, one auto-refund timeout at a step
Tick ==
    /\ now < MaxClock * AUTO_REFUND_TIMEOUT
    /\ now' = now + AUTO_REFUND_TIMEOUT
    /\ UNCHANGED <<users, products, orders, sms_orders, timers, req, nreq, ext>>

\* the server process is stopped and started again: the callbacks registered
\* with setTimeout and the requests in progress are gone, the database stays;
\* nothing is run at startup besides app.listen
Restart ==
    /\ \E p \in Procs : ~Free(p)
    /\ timers' = {}
    /\ req' = [p \in Procs |-> IF Free(p) THEN req[p] ELSE Idle]
    /\ UNCHANGED <<users, products, orders, sms_orders, now, nreq, ext>>

\* ---------------------------------------------------------- specifications

Sms == SmsOrder \/ SmsOrderV1 \/ SmsCheck \/ SmsCheckV1 \/ SmsCancel \/ Tick

\* ------------------------------------- the in-memory fallback (db is null)

\* the number of getCollection calls followed
MaxCalls == 3
\* collection names, and the emails of the documents inserted and looked up
MemNames == {"users", "orders"}
MemEmails == {"a@x", "b@x"}
\* new InMemoryCollection(name): data = [], counter = 1
InMemoryCollection(name) == [name |-> name, data |-> <<>>, counter |-> 1]

\* getCollection(name) while db is null: a new InMemoryCollection(name)
getCollection(name) == InMemoryCollection(name)

\* the positions of the documents of c.data matching { email } or { _id }
MemMatching(c, key, val) ==
    {i \in 1 .. Len(c.data) :
        IF key = "email" THEN c.data[i].email = val ELSE c.data[i]._id = val}

\* getCollection(name).insertOne(doc): doc._id = this.counter++, data.push(doc)
MemInsertOne(name, email) ==
    LET c == getCollection(name)
        doc == [_id |-> c.counter, email |-> email, balance |-> 0]
        c2 == [c EXCEPT !.data = Append(@, doc), !.counter = @ + 1]
    IN /\ Len(mem.objs) < MaxCalls
       /\ mem' = [objs |-> Append(mem.objs, c2),
                  inserted |-> mem.inserted \cup {<<name, email>>},
                  last |-> [NoCall EXCEPT !.op = "insertOne", !.name = name,
                                          !.email = email, !.id = doc._id]]
       /\ UNCHANGED <<users, products, orders, sms_orders, timers, now, req, nreq,
                      transactions, mysql, quote, allowed_services, pg, accounts, ledger>>

\* getCollection(name).findOne({ email }): the first document of this.data
\* equal to the query on every key, or null
MemFindOne(name, email) ==
    LET c == getCollection(name)
        m == MemMatching(c, "email", email)
        hit == CHOOSE i \in m : \A j \in m : i <= j
    IN /\ Len(mem.objs) < MaxCalls
       /\ mem' = [objs |-> Append(mem.objs, c),
                  inserted |-> mem.inserted,
                  last |-> [NoCall EXCEPT !.op = "findOne", !.name = name,
                                          !.email = email, !.found = (m # {}),
                                          !.id = IF m = {} THEN 0 ELSE c.data[hit]._id,
                                          !.balance = IF m = {} THEN 0
                                                      ELSE c.data[hit].balance]]
       /\ UNCHANGED <<users, products, orders, sms_orders, timers, now, req, nreq,
                      transactions, mysql, quote, allowed_services, pg, accounts, ledger>>

\* getCollection(name).updateOne({ _id }, { $inc: { balance } }): the first
\* document whose _id equals the query's, modifiedCount 1 if there is one
MemUpdateOne(name, id) ==
    LET c == getCollection(name)
        m == MemMatching(c, "_id", id)
        hit == CHOOSE i \in m : \A j \in m : i <= j
        c2 == IF m = {} THEN c
              ELSE [c EXCEPT !.data[hit].balance = @ + TopupAmount]
    IN /\ Len(mem.objs) < MaxCalls
       /\ mem' = [objs |-> Append(mem.objs, c2),
                  inserted |-> mem.inserted,
                  last |-> [NoCall EXCEPT !.op = "updateOne", !.name = name, !.id = id,
                                          !.modifiedCount = IF m = {} THEN 0 ELSE 1]]
       /\ UNCHANGED <<users, products, orders, sms_orders, timers, now, req, nreq,
                      transactions, mysql, quote, allowed_services, pg, accounts, ledger>>

Memory ==
    \/ \E name \in MemNames, email \in MemEmails : MemInsertOne(name, email)
    \/ \E name \in MemNames, email \in MemEmails : MemFindOne(name, email)
    \/ \E name \in MemNames, id \in 1 .. 2 : MemUpdateOne(name, id)

Next ==
    \/ Purchase \/ PurchaseV1 \/ SqlPurchase \/ Sms \/ SmmOrder \/ Verify \/ Pricing
    \/ AddAllowed \/ PgPurchase \/ Topup \/ SqlTopup \/ Register \/ Memory
    \/ ProductAdmin \/ SqlAdmin \/ PgAdmin \/ AllowedAdmin \/ SqlAccounts



Spec == Init /\ [][Next]_vars

\* the catalog purchase and the administration of the catalog
PurchaseSpec == Init /\ [][Purchase \/ ProductAdmin]_vars

\* the SMS order lifecycle alone
SmsSpec == Init /\ [][Sms]_vars

\* the SMM order alone
SmmSpec == Init /\ [][SmmOrder]_vars

\* the settlement flows that insert an order record
Settle == Purchase \/ ProductAdmin \/ SmsOrder \/ SmsOrderV1 \/ SmmOrder
\* started from the fullest catalog and two users who can pay: the emptier
\* states are reached from it by purchases
FundedInit ==
    /\ Init
    /\ \A id \in UserIds : users[id].balance = RichBalance
    /\ \A id \in ProductIds : products[id].stock = MaxStock

\* a database whose user u1 is stored under a string _id
LegacyUserIds == {IdStr("u1"), Oid("u2")}
LegacyInit ==
    /\ users \in [LegacyUserIds -> [balance : InitBalances, cents : {0}]]
    /\ users[Oid("u2")].balance = RichBalance
    /\ products \in [ProductIds -> [price : {ProductPrice}, stock : InitStocks]]
    /\ orders = <<>>
    /\ sms_orders = <<>>
    /\ timers = {}
    /\ now = 0
    /\ req = [p \in Procs |-> Idle]
    /\ nreq = 0
    /\ transactions = <<>>
    /\ mysql = SqlInit
    /\ quote = NoQuote
    /\ allowed_services = <<>>
    /\ accounts = <<>>
    /\ mem = MemInit
    /\ ledger = [id \in LegacyUserIds |-> users[id].balance]
    /\ pg = PgDb(users[IdStr("u1")].balance, products[Oid("p1")].stock)

\* the settlement flows start from either database, the users funded and
\* the catalog full
SettleInit ==
    /\ Init \/ LegacyInit
    /\ \A id \in DOMAIN users : users[id].balance = RichBalance
    /\ \A id \in ProductIds : products[id].stock = MaxStock
SettleSpec == SettleInit /\ [][Settle]_vars

\* the pricing converter alone
PricingSpec == Init /\ [][Pricing]_vars

\* payment verification alone
VerifySpec == Init /\ [][Verify]_vars

\* the MySQL purchase and product routes
SqlSpec == Init /\ [][SqlPurchase \/ SqlAdmin \/ SqlAccounts]_vars

\* the catalog purchase of both servers, on the one database
CatalogSpec == Init /\ [][Purchase \/ PurchaseV1 \/ ProductAdmin]_vars

\* the SMS order of server.js and the administration of the allowed services
GateSpec == Init /\ [][SmsOrder \/ AddAllowed \/ AllowedAdmin]_vars

\* the catalog purchase of server.js and of the Postgres route, each on its
\* own database holding the same user and product
StoreSpec == Init /\ [][Purchase \/ ProductAdmin \/ PgPurchase \/ PgAdmin]_vars

\* SMS orders of both servers, by users who can pay, as time passes and the
\* process restarts; every handler runs on and the clock advances
Expiry == SmsOrder \/ SmsOrderV1 \/ Tick
ExpirySpec == FundedInit /\ [][Expiry \/ Restart]_vars /\ WF_vars(Expiry)

\* the catalog purchase of the two MongoDB servers and of the Postgres
\* route; the Postgres database starts with the user u1 and the product p1
\* of the MongoDB database
VariantSpec ==
    Init /\ [][Purchase \/ PurchaseV1 \/ ProductAdmin \/ PgPurchase \/ PgAdmin]_vars

\* the top-up of server.js and of the MySQL routes
TopupSpec == Init /\ [][Topup \/ SqlTopup \/ SqlAccounts]_vars

\* the flows that credit and debit the balances of users: top-up, payment
\* verification, purchase, SMS order and cancel
Money ==
    \/ Purchase \/ ProductAdmin \/ SmsOrder \/ SmsOrderV1 \/ SmsCancel
    \/ Topup \/ Verify
MoneySpec == FundedInit /\ [][Money]_vars

\* the purchase on a users collection in which the document of u1 has its
\* _id stored as the string, the case the fallback lookup of purchaseProduct
\* is written for
LegacySpec == LegacyInit /\ [][Purchase \/ ProductAdmin]_vars

\* the store calls made while db is null
MemorySpec == Init /\ [][Memory]_vars

\* registration alone
RegisterSpec == Init /\ [][Register]_vars

\* ------------------------------------------------------------------ claims

Done(p, op) == req[p].op = op /\ req[p].pc = "done"

SmsIds == 1 .. Len(sms_orders)

\* the moment an order's expires_at names: 25 minutes after its creation
ExpiryOf(o) == o.created_at + AUTO_REFUND_TIMEOUT

\* C1: a finished catalog purchase has taken exactly the product price from
\* the balance if it reports success, and nothing if it reports anything else
\* (not found, out of stock, insufficient balance, or any other failure).
C1_DebitIffSuccess ==
    \A p \in Procs :
        Done(p, "purchase") =>
            /\ (req[p].resp = "Success" => req[p].debited = ProductPrice)
            /\ (req[p].resp # "Success" => req[p].debited = 0)

\* C2: of two purchases of a product that both read its stock as 1, at most
\* one reports success (the other is out of stock), and the stock is never
\* negative.
C2_OneUnitOneSale ==
    /\ \A id \in DOMAIN products : products[id].stock >= 0
    /\ \A p, q \in Procs :
          (/\ p # q
           /\ Done(p, "purchase") /\ Done(q, "purchase")
           /\ req[p].arg = req[q].arg
           /\ req[p].stockSeen = 1 /\ req[q].stockSeen = 1)
          => ~(req[p].resp = "Success" /\ req[q].resp = "Success")

\* C3: an SMS order request whose allocation call returned a phone and an id
\* and whose debit of the final price was applied ends in success, with one
\* WAITING order recorded for the number, expiring 25 minutes after its
\* creation, and with its auto-refund timer registered.
C3_AllocatedNumberRecorded ==
    \A p \in Procs :
        (Done(p, "smsOrder") /\ req[p].alloc = "pair" /\ req[p].debited = req[p].price) =>
            /\ req[p].resp = "Success"
            /\ req[p].inserted \in SmsIds
            /\ sms_orders[req[p].inserted].price = req[p].price
            /\ sms_orders[req[p].inserted].phone = "pair"
            /\ sms_orders[req[p].inserted].expires_at
                  = sms_orders[req[p].inserted].created_at + AUTO_REFUND_TIMEOUT
            /\ req[p].inserted \in timers

\* C4: a finished settlement (catalog purchase or SMS order) was applied
\* whole or not at all: either nothing was debited, consumed or recorded, or
\* the price was debited, the unit of stock consumed (purchase) and the
\* order record inserted.
C4_AllOrNothing ==
    \A p \in Procs :
        (Done(p, "purchase") \/ Done(p, "smsOrder") \/ Done(p, "smsOrderV1")) =>
            \/ req[p].debited = 0 /\ req[p].stockTaken = 0 /\ req[p].inserted = 0
            \/ /\ req[p].debited = req[p].price
               /\ req[p].op = "purchase" => req[p].stockTaken = 1
               /\ req[p].inserted # 0

\* C5: no step changes the status of an SMS order that is COMPLETED,
\* CANCELLED or EXPIRED.
C5_TerminalIsFinal ==
    [][\A id \in SmsIds :
          sms_orders[id].status \in Terminal
             => sms_orders'[id].status = sms_orders[id].status]_vars

\* C6: the total credited back for one SMS order never exceeds its price.
C6_RefundedAtMostOnce ==
    \A id \in SmsIds : sms_orders[id].refunded <= sms_orders[id].price

\* C7: an SMS order request that charged the price P created an order of
\* price P owned by that user, which a cancel then refunds: a cancel that
\* succeeds credits exactly the order's price, a cancel refused with
\* InvalidState credits nothing.
C7_OrderThenCancel ==
    /\ \A p \in Procs :
          (Done(p, "smsOrder") /\ req[p].debited > 0) =>
              /\ req[p].inserted \in SmsIds
              /\ sms_orders[req[p].inserted].price = req[p].debited
              /\ toObjectId(sms_orders[req[p].inserted].user_id) = req[p].userIdObj
    /\ \A p \in Procs :
          Done(p, "cancel") =>
              /\ req[p].resp = "Success" => req[p].debited = -req[p].price
              /\ req[p].resp = "InvalidState" => req[p].debited = 0

\* C8: an SMS order still WAITING once its expiry has been reached has its
\* refund pending (the reconciliation job is registered for it); an order is
\* never credited back more than its price, and an EXPIRED order was
\* credited back exactly its price.
C8_ExpiredOrderRefunded ==
    \A id \in SmsIds :
        /\ (sms_orders[id].status = "WAITING" /\ now >= ExpiryOf(sms_orders[id]))
              => id \in timers
        /\ sms_orders[id].status = "EXPIRED"
              => sms_orders[id].refunded = sms_orders[id].price

\* C9: an SMS order request whose allocation call did not return a phone
\* and an id debits nothing, records no order and does not report success.
C9_NoPairNoDebit ==
    \A p \in Procs :
        (req[p].op \in {"smsOrder", "smsOrderV1"} /\ req[p].alloc # "pair") =>
            /\ req[p].debited = 0
            /\ req[p].inserted = 0
            /\ req[p].resp # "Success"

\* C10: no user's balance is ever negative.
C10_BalanceNonNegative ==
    \A id \in DOMAIN users : users[id].balance >= 0

\* C11: product stock is never negative, and a purchase of a product it
\* read with stock 0 never debits the user and never reports success.
C11_StockNeverNegative ==
    /\ \A id \in DOMAIN products : products[id].stock >= 0
    /\ \A p \in Procs :
          (req[p].op \in {"purchase", "purchaseV1"} /\ req[p].stockSeen = 0)
          => (req[p].debited = 0 /\ req[p].resp # "Success")

\* C12: the step of a purchase that writes the product, the row being
\* there and not rewritten by the update route, leaves its stock exactly
\* one less than before the step, and the payload as it was before the step
\* minus the delivered line at its head.
C12_StockOneLess ==
    [][\A p \in Procs :
          (/\ req[p].op = "sqlPurchase" /\ req[p].pc = "updateProduct"
           /\ req'[p].pc = "insertOrder"
           /\ req[p].sqlProduct \in DOMAIN mysql.products
           /\ mysql.products[req[p].sqlProduct].price = SqlPrice)
          => LET before == mysql.products[req[p].sqlProduct]
                 after == mysql'.products[req[p].sqlProduct]
             IN /\ after.stock = before.stock - 1
                /\ before.product_link # <<>>
                /\ Head(before.product_link) = req[p].item
                /\ after.product_link = Tail(before.product_link)]_vars

\* C13: every recorded delivery is a non-empty line of the product's
\* payload, and no line is delivered by two orders.
C13_NoLineTwice ==
    /\ \A i \in DOMAIN mysql.orders :
          \E k \in DOMAIN SqlPayload : mysql.orders[i].product_link = SqlPayload[k]
    /\ \A i, j \in DOMAIN mysql.orders :
          i # j => mysql.orders[i].product_link # mysql.orders[j].product_link

\* C14: with no purchase in progress, none ended by a store failure and the
\* row of the product neither deleted nor rewritten by a product route, the
\* stock of the product has decreased by the number of successful purchases
\* and the balance by their total price.
C14_NoLostUpdate ==
    (/\ mysql.errors = 0
     /\ \A p \in Procs : req[p].op = "sqlPurchase" => req[p].pc = "done"
     /\ \A i \in SqlIds :
           i \in DOMAIN mysql.products /\ mysql.products[i].price = SqlPrice)
    => /\ \A i \in SqlIds :
             mysql.products[i].stock = Len(SqlPayload) - mysql.sold
       /\ \A i \in SqlIds :
             mysql.users[i].balance = SqlBalance - SqlPrice * mysql.sold

\* C15: a payment reference is recorded by at most one transaction, and
\* verification raises a balance by at most the amount of the one successful
\* payment, however often it is repeated.
C15_CreditedOncePerReference ==
    /\ \A i, j \in DOMAIN transactions :
          i # j => transactions[i].transaction_id # transactions[j].transaction_id
    /\ users[Oid("u2")].balance <= RichBalance + PaymentAmount

\* C16: every order record (product, SMS, SMM) was inserted by a request
\* that had already applied the debit of the price the record carries.
C16_OrderAfterDebit ==
    /\ \A i \in DOMAIN orders : orders[i].paid = orders[i].price
    /\ \A i \in DOMAIN sms_orders : sms_orders[i].paid = sms_orders[i].price

\* C17: a step of a check request for which the provider reported no code
\* changes no balance, no order and no other stored data, and such a check
\* answers with the status it read.
C17_CheckWithoutCodeReadOnly ==
    [][\A p \in Procs :
          (req'[p].op = "check" /\ req'[p] # req[p] /\ req'[p].alloc # "code")
          => /\ UNCHANGED <<users, products, orders, sms_orders, timers,
                            transactions, mysql, allowed_services, pg, accounts, ledger, mem>>
             /\ (req[p].pc = "fetchCheck" /\ req'[p].resp = "Success")
                   => req'[p].ret = req[p].order.doc.status]_vars

\* C19: every price computed from an upstream cost, in the quote and in the
\* order operation, is the least integer not below cost * 30 * 1.2, so the
\* quote and the order agree: cost 10 gives 360 and cost 2.5 gives 90.
C19_PriceIsCeil ==
    \A price \in {quote.live, quote.order, quote.liveV1, quote.orderV1} \ {-1} :
        /\ price * 100 * 100 >= quote.cost100 * 30 * 120
        /\ (price - 1) * 100 * 100 < quote.cost100 * 30 * 120

\* C20: every amount debited for an SMM order is a whole amount: no request
\* has debited a fraction and no balance carries one.
C20_SmmPriceWhole ==
    /\ \A p \in Procs : req[p].op = "smmOrder" => req[p].debited % 100 = 0
    /\ \A id \in DOMAIN users : users[id].cents = 0

\* C21: an SMM order whose submission to the provider failed (the call was
\* rejected, or it was answered without a provider order id) debits nothing,
\* records no order and does not report success.
C21_SubmitFailureNoDebit ==
    \A p \in Procs :
        (req[p].op = "smmOrder" /\ req[p].alloc \in {"rejected", "noorder"}) =>
            /\ req[p].debited = 0
            /\ req[p].inserted = 0
            /\ req[p].resp # "Success"

\* C22: an SMS order request goes on past its validation, to the provider's
\* price call, only if the allowed services list its service and it names a
\* user and a complete (service, country, operator) tuple.
C22_GateBeforeProvider ==
    [][\A p \in Procs :
          (/\ Free(p)
           /\ req'[p].op = "smsOrder" /\ req'[p].pc = "fetchPrices")
          => /\ Listed(SmsService)
             /\ req'[p].userId # NullId
             /\ req'[p].offer # "missing"]_vars

\* C23: a purchase or SMS order answered InsufficientBalance names in its
\* error message the amount required, the price, and the balance available,
\* which is below it.
C23_InsufficientNamesAmounts ==
    \A p \in Procs :
        (/\ req[p].op \in {"purchase", "pgPurchase", "smsOrder"}
         /\ req[p].pc = "done" /\ req[p].resp = "InsufficientBalance")
        => /\ req[p].need > 0
           /\ req[p].have >= 0 /\ req[p].haveCents \in 0 .. 99
           /\ req[p].have < req[p].need

\* C24: an SMS order that is WAITING once its expiry has passed is
\* eventually EXPIRED with its price credited back, whether or not the
\* process restarted meanwhile.
C24_ExpiredEventuallyRefunded ==
    \A id \in 1 .. MaxRequests :
        (/\ id \in SmsIds
         /\ sms_orders[id].status = "WAITING"
         /\ now >= ExpiryOf(sms_orders[id]))
        ~> (/\ id \in SmsIds
            /\ sms_orders[id].status = "EXPIRED"
            /\ sms_orders[id].refunded = sms_orders[id].price)

\* C25: an SMS order request reaches the provider's allocation call only
\* with an offered tuple, an existing user and a balance read that covers
\* the final price; the steps before the call change no balance and no
\* order, and a request that ends in them does not report success.
C25_AllocateAfterValidation ==
    [][\A p \in Procs :
          (req[p].op \in {"smsOrder", "smsOrderV1"} /\ req'[p] # req[p])
          => /\ req[p].pc \in {"fetchPrices", "findUser"}
                   => /\ UNCHANGED <<users, orders, sms_orders>>
                      /\ req'[p].pc = "done" => req'[p].resp # "Success"
             /\ req'[p].pc = "allocate"
                   => /\ req'[p].offer = "listed"
                      /\ req'[p].userIdObj \in DOMAIN users
                      /\ req'[p].user.found
                      /\ req'[p].user.doc.balance >= req'[p].price
                      /\ req'[p].price =
                            IF req[p].op = "smsOrder" THEN SmsPrice(OfferCost100)
                            ELSE SmsPriceV1(OfferCost100)]_vars

\* the earlier server has turned a request down for a balance below the
\* price, nothing being debited or recorded, while a request of server.js
\* has passed the validations and is about to call the allocation endpoint
C25_Witness ==
    \E p, q \in Procs :
        /\ Done(q, "smsOrderV1") /\ req[q].resp = "InsufficientBalance"
        /\ req[q].debited = 0
        /\ req[p].op = "smsOrder" /\ req[p].pc = "allocate"
        /\ sms_orders = <<>>

\* C26: the step of a check that follows a code reported by the provider
\* (alloc is that code), on an order that is WAITING, changes no balance; if it answers with
\* success the order is COMPLETED with the code stored in sms_code and the
\* code is returned, and otherwise it is a server error and the order is as
\* it was.
C26_CodeCompletesOrder ==
    [][\A p \in Procs :
          (/\ req[p].op = "check" /\ req[p].pc = "setCompleted"
           /\ req[p].alloc = "code"
           /\ req'[p] # req[p]
           /\ sms_orders[req[p].orderId].status = "WAITING")
          => /\ UNCHANGED users
             /\ req'[p].pc = "done"
             /\ IF req'[p].resp = "Success"
                THEN /\ sms_orders'[req[p].orderId].status = "COMPLETED"
                     /\ sms_orders'[req[p].orderId].sms_code = "code"
                     /\ req'[p].item = "code"
                     /\ req'[p].ret = "COMPLETED"
                     /\ Len(sms_orders') = Len(sms_orders)
                ELSE /\ req'[p].resp = "InternalError"
                     /\ UNCHANGED sms_orders]_vars

\* a check has returned the code of an order that is now COMPLETED
C26_Witness ==
    \E p \in Procs, id \in SmsIds :
        /\ Done(p, "check") /\ req[p].resp = "Success" /\ req[p].item = "code"
        /\ sms_orders[id].status = "COMPLETED" /\ sms_orders[id].sms_code = "code"

\* C27: in a catalog purchase the stock is decremented and the order
\* inserted only after the debit was applied; a purchase reports success
\* only with the debit, the stock decrement and the order all applied; one
\* that ended after its debit without the stock decrement or without the
\* order ended with a server error; and a transaction that fails after its
\* debit statement is answered with a server error.
C27_FailureSurfaced ==
    /\ [](\A p \in Procs :
            req[p].op \in {"purchase", "pgPurchase"} =>
                /\ (req[p].stockTaken > 0 \/ req[p].inserted > 0) => req[p].debited > 0
                /\ req[p].resp = "Success"
                      => /\ req[p].debited = req[p].price /\ req[p].price > 0
                         /\ req[p].stockTaken = 1
                         /\ req[p].inserted > 0
                /\ (/\ req[p].pc = "done" /\ req[p].debited > 0
                    /\ (req[p].stockTaken = 0 \/ req[p].inserted = 0))
                      => req[p].resp = "InternalError" /\ req[p].status = 500)
    /\ [][\A p \in Procs :
             (/\ req[p].op = "pgPurchase" /\ req[p].pc = "rollback"
              /\ req[p].debited > 0 /\ req'[p].pc = "done")
             => req'[p].resp = "InternalError" /\ req'[p].status = 500]_vars

\* C28: a purchase by an existing user of a product it read with stock 0
\* fails with OutOfStock, whatever the user's balance.
C28_StockBeforeBalance ==
    \A p \in Procs :
        (/\ req[p].op \in {"purchase", "pgPurchase"} /\ req[p].pc = "done"
         /\ req[p].stockSeen = 0 /\ req[p].resp # "NotFound")
        => req[p].resp = "OutOfStock"

\* C29: an SMM order for a service the catalog does not list ends with
\* NotFound (or a server error when the catalog itself was not delivered),
\* and one of a user whose balance read is below the price ends with
\* InsufficientBalance; a request ended in one of these ways has submitted
\* nothing, debited nothing and recorded nothing; a request that reports
\* success has debited exactly the computed price and recorded an order of
\* type SMM, status PENDING, of that price, carrying the provider's order id.
C29_SmmOrderOutcomes ==
    /\ [](\A p \in Procs :
            req[p].op = "smmOrder" =>
                /\ req[p].resp \in {"NotFound", "InsufficientBalance"}
                      => /\ req[p].alloc = "none"
                         /\ req[p].debited = 0
                         /\ req[p].inserted = 0
                /\ req[p].resp = "Success"
                      => /\ req[p].debited = req[p].price
                         /\ req[p].inserted \in DOMAIN orders
                         /\ orders[req[p].inserted].type = "SMM"
                         /\ orders[req[p].inserted].status = "PENDING"
                         /\ orders[req[p].inserted].price = req[p].price
                         /\ orders[req[p].inserted].details = "Order ID: 1")
    /\ [][\A p \in Procs :
            (req[p].op = "smmOrder" /\ req'[p] # req[p]) =>
                /\ (req[p].pc = "fetchServices" /\ req[p].offer \notin SmmServices)
                      => req'[p].resp \in {"NotFound", "InternalError"}
                /\ (/\ req[p].pc = "findUser"
                    /\ req[p].userIdObj \in DOMAIN users
                    /\ users[req[p].userIdObj].balance * 100
                          + users[req[p].userIdObj].cents < req[p].price)
                      => req'[p].resp = "InsufficientBalance"]_vars

\* C30: when a MongoDB purchase (of either server) and a Postgres purchase
\* are the only two requests received, each on its own database holding the
\* same user and product, both naming that user and product and neither
\* meeting a store failure, they end with the same outcome kind, the same
\* amount debited and the same number of units taken from the stock.
C30_VariantsAgree ==
    \A p, q \in Procs :
        (/\ nreq = 2
         /\ req[p].op \in {"purchase", "purchaseV1"} /\ req[p].pc = "done"
         /\ req[q].op = "pgPurchase" /\ req[q].pc = "done"
         /\ req[p].userIdObj = Oid("u1")
         /\ req[p].resp \notin {"NotFound", "InternalError"}
         /\ req[q].resp \notin {"NotFound", "InternalError"})
        => /\ req[p].resp = req[q].resp
           /\ req[p].debited = req[q].debited
           /\ req[p].stockTaken = req[q].stockTaken

\* C31: a top-up request whose amount is not a number, is zero or negative,
\* or that carries no user id, ends at once with InvalidInput; no step of a
\* top-up lowers a balance or changes the balance of another user; and a
\* top-up that reports success has raised the balance by exactly its amount.
C31_TopupValidated ==
    [][\A p \in Procs :
          (req'[p].op \in {"topup", "sqlTopup"} /\ req'[p] # req[p])
          => /\ (Free(p) /\ (InvalidAmount(req'[p].amount) \/ ~req'[p].named))
                   => req'[p].pc = "done" /\ req'[p].resp = "InvalidInput"
             /\ \A id \in DOMAIN users :
                   /\ users'[id].balance >= users[id].balance
                   /\ id # req'[p].userIdObj => users'[id] = users[id]
             /\ \A i \in DOMAIN mysql.users :
                   mysql'.users[i].balance >= mysql.users[i].balance
             /\ req'[p].resp = "Success"
                   => /\ req'[p].amount.value > 0
                      /\ req'[p].debited = - req'[p].amount.value]_vars

\* C32: no two accounts created by registration carry the same email, a
\* registration answered "already exists" has created no account, and every
\* account is created with balance 0.
C32_EmailUnique ==
    /\ \A i, j \in DOMAIN accounts :
          i # j => accounts[i].email # accounts[j].email
    /\ \A i \in DOMAIN accounts : accounts[i].balance = 0
    /\ \A p \in Procs :
          (req[p].op = "register" /\ req[p].resp = "AlreadyExists")
          => req[p].inserted = 0

\* C33: no SMS order has both a delivered code stored on it and a refund
\* credited for it.
C33_CodeNeverRefunded ==
    \A id \in SmsIds :
        ~ (sms_orders[id].sms_code = "code" /\ sms_orders[id].refunded > 0)

\* the prices of the orders of the user id in a collection that count as spent
RECURSIVE SumPrices(_, _)
SumPrices(coll, id) ==
    IF coll = <<>> THEN 0
    ELSE (IF toObjectId(Head(coll).user_id) = id
             /\ Head(coll).status \notin {"CANCELLED", "EXPIRED"}
          THEN Head(coll).price ELSE 0)
         + SumPrices(Tail(coll), id)

\* C34: when no handler is in progress, every user's balance equals what
\* was credited to the user (opening balance, top-ups, verified payments)
\* minus the prices of the user's product and SMM orders and of the user's
\* SMS orders that are WAITING or COMPLETED.
C34_MoneyConserved ==
    (\A p \in Procs : Free(p))
    => \A id \in UserIds :
          users[id].balance
             = ledger[id] - SumPrices(orders, id) - SumPrices(sms_orders, id)

\* C35: the debit of a purchase takes the price from the user document whose
\* balance the purchase validated, found by the first lookup or by the
\* fallback lookup with the string id; a purchase that reports success has
\* passed that debit.
C35_DebitsValidatedUser ==
    [][\A p \in Procs :
          (/\ req[p].op = "purchase" /\ req[p].pc = "debit"
           /\ req'[p].pc = "decStock")
          => users'[req[p].user.id].balance
                = users[req[p].user.id].balance - req[p].price]_vars

\* C36: the refund step of a cancel adds exactly the price stored on the
\* order, which is the amount debited when the order was created, to the
\* balance of the user the order names as its owner, and leaves every other
\* user's balance as it was.
C36_RefundFrame ==
    [][\A p \in Procs :
          (/\ req[p].op = "cancel" /\ req[p].pc = "refund"
           /\ req'[p].pc = "setCancelled")
          => LET o == sms_orders[req[p].orderId]
                 owner == toObjectId(o.user_id)
             IN /\ owner \in DOMAIN users
                /\ o.price = o.paid
                /\ users'[owner].balance = users[owner].balance + o.price
                /\ \A id \in DOMAIN users :
                      id # owner => users'[id] = users[id]]_vars

\* a cancel has credited the price of an order of u1 and set it CANCELLED
C36_Witness ==
    \E p \in Procs, id \in SmsIds :
        /\ Done(p, "cancel") /\ req[p].resp = "Success"
        /\ toObjectId(sms_orders[id].user_id) = Oid("u1")
        /\ sms_orders[id].status = "CANCELLED"
        /\ sms_orders[id].refunded = sms_orders[id].price
        /\ req[p].debited = - sms_orders[id].price
        /\ users[Oid("u1")].balance = ledger[Oid("u1")]

\* C37: while db is null, a findOne through getCollection(name) for an email
\* that an earlier insertOne through getCollection(name) stored in the same
\* collection name returns that document, and an updateOne naming the _id
\* an earlier insertOne assigned in that collection modifies a document.
C37_InsertThenFind ==
    /\ (mem.last.op = "findOne" /\ <<mem.last.name, mem.last.email>> \in mem.inserted)
          => mem.last.found
    /\ (/\ mem.last.op = "updateOne"
        /\ \E i \in 1 .. Len(mem.objs) - 1 :
              /\ mem.objs[i].name = mem.last.name
              /\ \E k \in 1 .. Len(mem.objs[i].data) :
                    mem.objs[i].data[k]._id = mem.last.id)
          => mem.last.modifiedCount = 1
====
